---- MODULE Spec2Model ----
\* Model of the inngest CLI core: the event-to-run discovery engine
\* (InngestClient.listRuns, fetchTimeBasedChunks, fetchAdditionalPages),
\* the run collection orchestrator (collectRuns) and the run resolver
\* (ensureRun, findRunByPartialId, validateRunId).
EXTENDS Integers, Sequences, FiniteSets, TLC

\* ------------------------------------------------------------------
\* Values.  Atoms (status, cursor, run ids of the discovery model) are
\* TLA+ strings; texts that the code inspects character by character
\* (function names, identifiers typed by the user) are tuples of
\* one-character strings.  A missing JavaScript value is "undefined"
\* for an atom and <<"undefined">> for a text.
\* ------------------------------------------------------------------
UndefinedAtom == "undefined"
Undefined == <<"undefined">>

\* JavaScript truthiness of an optional string atom: undefined and ""
\* are falsy.
Truthy(a) == a # UndefinedAtom /\ a # ""

\* JavaScript truthiness of an optional text.
TruthyText(t) == t # Undefined /\ t # <<>>

\* String.prototype.includes on texts.
Includes(s, sub) ==
  \E i \in 0..(Len(s) - Len(sub)) : SubSeq(s, i + 1, i + Len(sub)) = sub

\* String.prototype.endsWith on texts.
EndsWith(s, suffix) ==
  /\ Len(suffix) <= Len(s)
  /\ SubSeq(s, Len(s) - Len(suffix) + 1, Len(s)) = suffix

\* Array.prototype.slice(0, n).
Slice(s, n) == SubSeq(s, 1, IF n < Len(s) THEN n ELSE Len(s))

Max(a, b) == IF a >= b THEN a ELSE b
Min(a, b) == IF a <= b THEN a ELSE b

\* Math.ceil(a / b) for positive integers.
CeilDiv(a, b) == (a + b - 1) \div b

\* ------------------------------------------------------------------
\* Bounds of the model and the input domains drawn from them.
\* ------------------------------------------------------------------
MaxPage == 2        \* events in one upstream events page
MaxChunkPage == 1   \* events in one chunk response
MaxEvents == 2      \* events gathered by one listRuns call
MaxCalls == 3       \* listRuns calls counted by the orchestrator model

RunIds == {"A", "B"}


\* An event: data.run_id and data.function_id, each possibly missing
\* (an event without a data object has neither).
EventVariants ==
  {[run_id |-> "A", function_id |-> <<"a", "b">>],
   [run_id |-> "A", function_id |-> <<"c">>],
   [run_id |-> "B", function_id |-> Undefined],
   [run_id |-> UndefinedAtom, function_id |-> Undefined]}

RECURSIVE SeqsUpTo(_, _)
SeqsUpTo(S, n) ==
  IF n = 0 THEN {<<>>}
  ELSE LET shorter == SeqsUpTo(S, n - 1)
       IN shorter \cup {Append(s, x) : s \in {t \in shorter : Len(t) = n - 1}, x \in S}

\* Statuses the upstream may report for a run; "Queued" is reported by
\* the API but is not a member of RunStatusSchema.
RawStatuses == {"Running", "Failed", "Queued"}
StatusFilters == {UndefinedAtom, "Failed"}
FunctionFilters == {Undefined, <<"b">>}
Limits == {1, 2}
HoursChoices == {12, 24, 36}
Cursors == {"", "c1", "c2"}
OptCursors == Cursors \cup {UndefinedAtom}

\* ------------------------------------------------------------------
\* Record validation (types: RunStatusSchema, InngestRunSchema).
\* ------------------------------------------------------------------
RunStatusSchema == {"Running", "Completed", "Failed", "Cancelled"}

\* InngestRunSchema.parse succeeds: non-empty run_id and a status of
\* the enum (timestamps are taken as well formed).
InngestRunSchemaOk(raw) ==
  /\ raw.run_id # UndefinedAtom /\ raw.run_id # ""
  /\ raw.status \in RunStatusSchema

\* What the upstream can answer to GET /v1/runs/{id}: the record of
\* that run, or a failure.
RawRuns(id) ==
  [run_id : {id}, status : RawStatuses, function_id : {Undefined}]
    \cup {[run_id |-> id, status |-> "Failed", function_id |-> <<"b">>]}
LookupFailure == [failed |-> TRUE]
LookupAnswers(id) == RawRuns(id) \cup {LookupFailure}

\* getRun: the request fails, or validateResponse throws, or the
\* validated run is returned.
GetRunFails(answer) == answer = LookupFailure \/ ~InngestRunSchemaOk(answer)

\* ------------------------------------------------------------------
\* listRuns, first pass: functionNames map (runId -> function name).
\* ------------------------------------------------------------------
HasRunId(e) == e.run_id # UndefinedAtom
HasFunctionId(e) == e.function_id # Undefined

RECURSIVE FirstPassFrom(_, _, _)
FirstPassFrom(evs, k, m) ==
  IF k > Len(evs) THEN m
  ELSE LET e == evs[k]
       IN FirstPassFrom(evs, k + 1,
            IF HasRunId(e) /\ HasFunctionId(e)
              THEN [m EXCEPT ![e.run_id] = e.function_id]
              ELSE m)

FunctionNamesMap(evs) == FirstPassFrom(evs, 1, [r \in RunIds |-> Undefined])

\* listRuns, second pass: the enriched run and the filters.
EnrichedRun(run, evs) ==
  [run_id |-> run.run_id, status |-> run.status,
   function_id |-> run.function_id,
   function_name |-> FunctionNamesMap(evs)[run.run_id]]

\* Mutant: the status comparison is dropped.
PassesFilters_IgnoreStatus(o, run) ==
  TruthyText(o.function_id) =>
    \/ run.function_id = o.function_id
    \/ (run.function_name # Undefined /\ Includes(run.function_name, o.function_id))

PassesFilters(o, run) ==
  /\ ~(Truthy(o.status) /\ run.status # o.status)
  /\ TruthyText(o.function_id) =>
       \/ run.function_id = o.function_id
       \/ (run.function_name # Undefined /\ Includes(run.function_name, o.function_id))

\* ------------------------------------------------------------------
\* fetchTimeBasedChunks.
\* ------------------------------------------------------------------
DefaultTotalHours == 168
chunkHours == 12
MaxParallelChunks == 6
DefaultMaxResults == 1000

\* Number of chunk requests issued: i = 1 .. while i < chunks && i <= 6.
NumChunkRequests(hours) ==
  LET totalHours == IF hours = 0 THEN DefaultTotalHours ELSE hours
      chunks == CeilDiv(totalHours, chunkHours)
  IN Min(Max(chunks - 1, 0), MaxParallelChunks)

ChunkOk(i, evs) == [chunkIndex |-> i + 1, events |-> evs, error |-> FALSE]
ChunkError(i) == [chunkIndex |-> i + 1, events |-> <<>>, error |-> TRUE]
ChunkPending == [chunkIndex |-> 0, events |-> <<>>, error |-> FALSE]

\* results.sort((a, b) => a.chunkIndex - b.chunkIndex), as insertion sort.
RECURSIVE InsertByIndex(_, _)
InsertByIndex(sorted, r) ==
  IF sorted = <<>> THEN <<r>>
  ELSE IF r.chunkIndex < Head(sorted).chunkIndex THEN <<r>> \o sorted
  ELSE <<Head(sorted)>> \o InsertByIndex(Tail(sorted), r)

RECURSIVE SortByChunkIndex(_)
SortByChunkIndex(rs) ==
  IF rs = <<>> THEN <<>>
  ELSE InsertByIndex(SortByChunkIndex(SubSeq(rs, 1, Len(rs) - 1)), rs[Len(rs)])

\* The merge loop over the sorted results: an errored chunk is skipped,
\* a non-empty chunk is appended, and the loop breaks once maxResults
\* events are gathered.
RECURSIVE MergeLoop(_, _, _, _)
MergeLoop(rs, k, allEvents, maxResults) ==
  IF k > Len(rs) THEN allEvents
  ELSE IF rs[k].error THEN MergeLoop(rs, k + 1, allEvents, maxResults)
  ELSE IF Len(rs[k].events) > 0
    THEN LET grown == allEvents \o rs[k].events
         IN IF Len(grown) >= maxResults THEN grown
            ELSE MergeLoop(rs, k + 1, grown, maxResults)
  ELSE MergeLoop(rs, k + 1, allEvents, maxResults)

\* Mutant: an errored chunk ends the merge instead of being skipped.
RECURSIVE MergeLoop_AbortOnError(_, _, _, _)
MergeLoop_AbortOnError(rs, k, allEvents, maxResults) ==
  IF k > Len(rs) THEN allEvents
  ELSE IF rs[k].error THEN allEvents
  ELSE IF Len(rs[k].events) > 0
    THEN LET grown == allEvents \o rs[k].events
         IN IF Len(grown) >= maxResults THEN grown
            ELSE MergeLoop_AbortOnError(rs, k + 1, grown, maxResults)
  ELSE MergeLoop_AbortOnError(rs, k + 1, allEvents, maxResults)

MergeChunkResults_AbortOnError(rs, maxResultsOption) ==
  LET limit == IF maxResultsOption = 0 THEN DefaultMaxResults ELSE maxResultsOption
  IN Slice(MergeLoop_AbortOnError(SortByChunkIndex(rs), 1, <<>>, limit), limit)

\* Mutant: the merged list is returned without the final slice.
MergeChunkResults_NoSlice(rs, maxResultsOption) ==
  LET limit == IF maxResultsOption = 0 THEN DefaultMaxResults ELSE maxResultsOption
  IN MergeLoop(SortByChunkIndex(rs), 1, <<>>, limit)

MergeChunkResults(rs, maxResultsOption) ==
  LET limit == IF maxResultsOption = 0 THEN DefaultMaxResults ELSE maxResultsOption
  IN Slice(MergeLoop(SortByChunkIndex(rs), 1, <<>>, limit), limit)

\* maxResults handed over by listRuns: Math.max((limit || 20) * 5, 200).
DefaultLimit == 20
MinMaxResults == 200
ListMaxResults(limit) ==
  Max((IF limit = 0 THEN DefaultLimit ELSE limit) * 5, MinMaxResults)

\* fetchAdditionalPages.
maxAdditionalPages == 20

\* ------------------------------------------------------------------
\* collectRuns (run-collection.ts).
\* ------------------------------------------------------------------
SAFETY_LIMIT == 1000
FetchAllLimit == 100

\* The options object built for each listRuns call.
ListOptions(o, cursor) ==
  [limit |-> IF o.fetchAll THEN FetchAllLimit ELSE o.limit,
   status |-> IF Truthy(o.status) THEN o.status ELSE UndefinedAtom,
   function_id |-> IF TruthyText(o.function_id) THEN o.function_id ELSE Undefined,
   cursor |-> IF Truthy(cursor) THEN cursor ELSE UndefinedAtom,
   hours |-> o.hours]

\* Mutant: has_more alone decides.
HasMoreOf_IgnoreCursor(resp) == resp.has_more = "true"

\* Boolean(response.has_more && response.cursor)
HasMoreOf(resp) == resp.has_more = "true" /\ Truthy(resp.cursor)

\* Mutant: the loop goes on without a cursor.
LoopBreaks_IgnoreCursor(o, resp) == ~(o.fetchAll /\ resp.has_more = "true")

\* !(options.fetchAll && response.has_more && response.cursor)
LoopBreaks(o, resp) == ~(o.fetchAll /\ resp.has_more = "true" /\ Truthy(resp.cursor))

\* options.fetchAll && runs.length >= SAFETY_LIMIT
ReachedSafetyLimit(o, n) == o.fetchAll /\ n >= SAFETY_LIMIT

\* ------------------------------------------------------------------
\* State.
\* ------------------------------------------------------------------
VARIABLES
  opts,              \* CollectRunsOptions of the collectRuns call
  client,            \* "real": InngestClient.listRuns; "mock": a stub client
  upKind,            \* upstream: "varied" (few events, any shape) or "uniform" (many pages of one event)
  pc,                \* position of the collectRuns / listRuns call
  listOptions,       \* options of the listRuns call in progress
  cursorForRequest,  \* collectRuns locals
  nextCursor,
  hasMoreAvailable,
  collected,         \* runs.length in collectRuns
  calls,             \* listRuns calls made so far (saturating at MaxCalls)
  response,          \* last listRuns response seen by collectRuns
  allMore,           \* every response so far had has_more and a cursor
  events,            \* listRuns: merged event list
  initialCursor,     \* initialEventsResponse.data.metadata.next_cursor
  maxResults,        \* fetchTimeBasedChunks: options.maxResults (0: not given)
  results,           \* fetchTimeBasedChunks: settled chunk results
  currentCursor,     \* fetchAdditionalPages locals
  pagesLoaded,
  additionalEvents,
  idx,               \* second pass: position in events
  seenRunIds,
  runs,
  result,            \* listRuns result.data
  upInitial,         \* upstream record: events of the initial page
  upPages,           \* upstream record: events of the delivered cursor pages
  upPageFailed,      \* upstream record: a cursor page request failed
  pageRequests,      \* upstream record: cursor page requests received
  outOfOrder,        \* upstream record (when observed): a chunk settled after one of higher index
  upLookup,          \* upstream record: answer to each run lookup
  getRunCalls        \* run ids handed to getRun by the second pass, in order

\* RunWatcher state (polling), the process running the watch command,
\* and the record under validation.
VARIABLES
  isWatching,   \* RunWatcher.isWatching
  intervalId,   \* RunWatcher.intervalId: 0 is null, k the timer of watch k
  timers,       \* interval timers scheduled in the runtime
  watch,        \* per accepted watch call: its closure (lastStatus, ...) and record
  nextWatch,    \* number of accepted watch calls
  lastCall,     \* outcome of the latest call: "none", "started", "threw"
  now,          \* Date.now()
  proc,         \* the process: "running", "exit0", "exit1"
  cmd,          \* position of the command action
  shown,        \* errors reported through displayError
  lastCheck,    \* record of the latest settled check
  record,       \* input of InngestRunSchema.parse
  verdict       \* "none", "accepted", "rejected"

watchVars == <<isWatching, intervalId, timers, watch, nextWatch, lastCall, now,
               proc, cmd, shown, lastCheck>>
validateVars == <<record, verdict>>

\* The cancel command.
VARIABLES
  cancelOptions,  \* options parsed by commander for `cancel`
  cancelPc,       \* position of the action: "idle", "start", "awaiting", "done"
  requests,       \* client methods invoked by the action, in order
  http,           \* HTTP requests those methods sent, in order
  cancelOutcome   \* "none", "dryRun", "needsYes", "cancelled", "error"

cancelVars == <<cancelOptions, cancelPc, requests, http, cancelOutcome>>

\* The query parameters of one listRuns call.  An instant is written
\* as the number of hours it lies before the call (0 is now, a larger
\* number is earlier).
VARIABLES
  timeOptions,   \* after, before, hours and status of the listRuns options
  wpc,           \* position: "idle", "start", "chunking", "done"
  eventsParams,  \* received_after / received_before of the initial query
  chunkParams    \* received_after / received_before of each chunk query, in issue order

windowVars == <<timeOptions, wpc, eventsParams, chunkParams>>
toolVars == <<cancelVars, windowVars>>
extVars == <<watchVars, validateVars, toolVars>>

\* Resolver state.
NoRun == [run_id |-> Undefined, status |-> "none"]
NoResolved == [run |-> NoRun, runId |-> Undefined, usedPartial |-> FALSE]

VARIABLES
  entry,        \* function entered: "ensureRun" or "findRunByPartialId"
  rpc,          \* position in the resolver
  idInput,      \* the identifier given
  clientCalls,  \* methods of RunLookupClient invoked by ensureRun, in order
  lookups,      \* run ids sent to GET /v1/runs/{id}, in order
  answers,      \* upstream record: the answer to each of those requests
  upListing,    \* upstream record: "none", "ok" or "failed" for listEvents
  candidates,   \* events.data of the listEvents page
  scanIdx,      \* position of the search loop
  found,        \* return value of findRunByPartialId (NoRun is null)
  resolved,     \* return value of ensureRun
  thrown        \* error thrown by ensureRun: "none", "lookup", "notfound"

resolveVars == <<entry, rpc, idInput, clientCalls, lookups, answers, upListing, candidates,
                 scanIdx,
                 found, resolved, thrown>>

collectVars == <<opts, client, upKind, listOptions, cursorForRequest, nextCursor,
                 hasMoreAvailable, collected, calls, response, allMore>>
fetchVars == <<events, initialCursor, maxResults, results, outOfOrder, currentCursor,
               pagesLoaded, additionalEvents, upInitial, upPages, upPageFailed, pageRequests>>
passVars == <<idx, seenRunIds, runs, result, upLookup, getRunCalls>>
listVars == <<fetchVars, passVars>>

NoResponse == [size |-> 0, has_more |-> "undefined", cursor |-> UndefinedAtom]
NotAsked == [asked |-> FALSE]

InitList ==
  /\ events = <<>> /\ initialCursor = UndefinedAtom /\ results = <<>>
  /\ maxResults = 0
  /\ currentCursor = UndefinedAtom /\ pagesLoaded = 0 /\ additionalEvents = <<>>
  /\ idx = 1 /\ seenRunIds = {} /\ runs = <<>> /\ result = <<>>
  /\ upInitial = <<>> /\ upPages = <<>> /\ upPageFailed = FALSE /\ pageRequests = 0
  /\ outOfOrder = FALSE /\ upKind = "varied"
  /\ upLookup = [r \in RunIds |-> NotAsked] /\ getRunCalls = <<>>

\* A listRuns call starts from fresh locals.
ResetList ==
  /\ events' = <<>> /\ initialCursor' = UndefinedAtom /\ results' = <<>>
  /\ maxResults' = 0
  /\ currentCursor' = UndefinedAtom /\ pagesLoaded' = 0 /\ additionalEvents' = <<>>
  /\ idx' = 1 /\ seenRunIds' = {} /\ runs' = <<>> /\ result' = <<>>
  /\ upInitial' = <<>> /\ upPages' = <<>> /\ upPageFailed' = FALSE /\ pageRequests' = 0
  /\ outOfOrder' = FALSE
  /\ upLookup' = [r \in RunIds |-> NotAsked] /\ getRunCalls' = <<>>

InitCollect(o, c) ==
  /\ opts = o /\ client = c
  /\ listOptions = ListOptions(o, o.cursor)
  /\ cursorForRequest = o.cursor
  /\ nextCursor = UndefinedAtom
  /\ hasMoreAvailable = FALSE
  /\ collected = 0 /\ calls = 0
  /\ response = NoResponse /\ allMore = TRUE

\* ------------------------------------------------------------------
\* collectRuns: one loop iteration is CollectCall, the listRuns call,
\* then CollectResponse.
\* ------------------------------------------------------------------
CollectCall ==
  /\ pc = "call"
  /\ listOptions' = ListOptions(opts, cursorForRequest)
  /\ calls' = Min(calls + 1, MaxCalls)
  /\ pc' = IF client = "real" THEN "initial" ELSE "mock"
  /\ ResetList
  /\ UNCHANGED <<opts, client, upKind, cursorForRequest, nextCursor, hasMoreAvailable,
                 collected, response, allMore>>
  /\ UNCHANGED <<resolveVars, extVars>>

CollectResponse ==
  /\ pc = "response"
  /\ collected' = collected + response.size
  /\ nextCursor' = IF Truthy(response.cursor) THEN response.cursor ELSE nextCursor
  /\ allMore' = (allMore /\ response.has_more = "true" /\ Truthy(response.cursor))
  /\ IF LoopBreaks(opts, response)
       THEN /\ hasMoreAvailable' = HasMoreOf(response)
            /\ pc' = "done"
            /\ UNCHANGED cursorForRequest
       ELSE /\ cursorForRequest' = response.cursor
            /\ IF ReachedSafetyLimit(opts, collected')
                 THEN hasMoreAvailable' = TRUE /\ pc' = "done"
                 ELSE hasMoreAvailable' = HasMoreOf(response) /\ pc' = "call"
  /\ UNCHANGED <<opts, client, upKind, listOptions, calls, response, listVars>>
  /\ UNCHANGED <<resolveVars, extVars>>

\* A stub client: listRuns answers with any page.
PageSizes == {0, 70, 100}
HasMoreValues == {"true", "false", "undefined"}
MockResponses == [size : PageSizes, has_more : HasMoreValues, cursor : OptCursors]

MockListRuns ==
  /\ pc = "mock"
  /\ \E resp \in MockResponses : response' = resp
  /\ pc' = "response"
  /\ UNCHANGED <<opts, client, upKind, listOptions, cursorForRequest, nextCursor,
                 hasMoreAvailable, collected, calls, allMore, listVars>>
  /\ UNCHANGED <<resolveVars, extVars>>

\* ------------------------------------------------------------------
\* InngestClient.listRuns (api client).
\* ------------------------------------------------------------------
PageCursors == {UndefinedAtom, "c1", "c2"}

\* What the upstream may deliver in one cursor page, and how many
\* events one listRuns call is let to gather: a varied upstream sends
\* pages of any events, a uniform one sends the same one-event page for
\* as long as it is asked.
UniformEvent == [run_id |-> "A", function_id |-> <<"c">>]
UniformPage == <<UniformEvent>>
PagePool(kind) ==
  IF kind = "varied" THEN SeqsUpTo(EventVariants, MaxPage) \ {<<>>} ELSE {UniformPage}

\* The events limit asked for in a status search (the API maximum), and
\* the chunk responses: a uniform upstream answers a chunk query with
\* no event, a partial page or a full page.
StatusEventLimit == 100
UniformChunkSizes == {0, 70, StatusEventLimit}
ChunkPool(kind) ==
  IF kind = "varied" THEN SeqsUpTo(EventVariants, MaxChunkPage)
  ELSE {[i \in 1..n |-> UniformEvent] : n \in UniformChunkSizes}
EventBudget(kind) ==
  IF kind = "varied" THEN MaxEvents ELSE MaxParallelChunks * StatusEventLimit

\* Events gathered so far by the call, settled chunks included.
RECURSIVE ChunkEventCount(_, _)
ChunkEventCount(rs, k) ==
  IF k > Len(rs) THEN 0 ELSE Len(rs[k].events) + ChunkEventCount(rs, k + 1)

Gathered ==
  IF pc \in {"chunks", "fanout"}
    THEN Len(events) + ChunkEventCount(results, 1)
    ELSE Len(events) + Len(additionalEvents)

StartSecondPass ==
  /\ idx' = 1 /\ seenRunIds' = {} /\ runs' = <<>>

\* The initial GET /v1/events fails: listRuns rejects, and so does
\* collectRuns, which does not catch.
FetchInitialFails ==
  /\ pc = "initial"
  /\ pc' = "threw:initial"
  /\ UNCHANGED <<collectVars, listVars>>
  /\ UNCHANGED <<resolveVars, extVars>>

\* The initial page arrives; with a status filter the chunk requests
\* are issued at once.
FetchInitial ==
  /\ pc = "initial"
  /\ \E page \in SeqsUpTo(EventVariants, MaxPage), nc \in {UndefinedAtom, "c1"} :
       /\ events' = page
       /\ upInitial' = page
       /\ initialCursor' = nc
  /\ IF Truthy(listOptions.status)
       THEN /\ pc' = "chunks"
            /\ maxResults' = ListMaxResults(listOptions.limit)
            /\ results' = [i \in 1..NumChunkRequests(listOptions.hours) |-> ChunkPending]
            /\ UNCHANGED <<idx, seenRunIds, runs>>
       ELSE /\ pc' = "materialize"
            /\ StartSecondPass
            /\ UNCHANGED <<results, maxResults>>
  /\ UNCHANGED <<collectVars, currentCursor, pagesLoaded, additionalEvents,
                 upPages, upPageFailed, pageRequests, outOfOrder, result, upLookup,
                 getRunCalls>>
  /\ UNCHANGED <<resolveVars, extVars>>

\* Mutant: the await resumes as soon as one chunk request has settled.
PromiseAll_Race(rs) == \E i \in 1..Len(rs) : rs[i] # ChunkPending

\* await Promise.all(chunkPromises) resumes: every chunk promise is
\* settled (each one resolves, its rejection being caught).
PromiseAll(rs) == \A i \in 1..Len(rs) : rs[i] # ChunkPending

\* One chunk request settles, in any order: .then(...) or .catch(...).
SettleChunkTo(i) ==
  /\ pc \in {"chunks", "fanout"}
  /\ i \in 1..Len(results)
  /\ results[i] = ChunkPending
  /\ \/ results' = [results EXCEPT ![i] = ChunkError(i)]
     \/ \E evs \in ChunkPool(upKind) :
          /\ Gathered + Len(evs) <= EventBudget(upKind)
          /\ results' = [results EXCEPT ![i] = ChunkOk(i, evs)]
  /\ UNCHANGED <<collectVars, pc, events, initialCursor, maxResults, currentCursor,
                 pagesLoaded, additionalEvents, upInitial, upPages, upPageFailed,
                 pageRequests, passVars>>
  /\ UNCHANGED <<resolveVars, extVars>>

SettleChunk(i) == SettleChunkTo(i) /\ UNCHANGED outOfOrder

\* The same step with the completion order observed: outOfOrder records
\* that a chunk settled after a chunk of higher index.
SettleChunkObserved(i) ==
  /\ SettleChunkTo(i)
  /\ outOfOrder' = (outOfOrder \/ \E j \in (i + 1)..Len(results) : results[j] # ChunkPending)

\* Promise.all has settled: merge, then enter fetchAdditionalPages when
\* there is any event at all.
MergeChunks ==
  /\ pc = "chunks"
  /\ PromiseAll(results)
  /\ LET timeBasedEvents == MergeChunkResults(results, maxResults)
         merged == events \o timeBasedEvents
     IN /\ events' = merged
        /\ IF Len(merged) > 0
             THEN /\ pc' = "pages"
                  /\ currentCursor' = initialCursor
                  /\ UNCHANGED <<idx, seenRunIds, runs>>
             ELSE /\ pc' = "materialize"
                  /\ UNCHANGED currentCursor
                  /\ StartSecondPass
  /\ UNCHANGED <<collectVars, initialCursor, maxResults, results, outOfOrder, pagesLoaded,
                 additionalEvents, upInitial, upPages, upPageFailed, pageRequests, result,
                 upLookup, getRunCalls>>
  /\ UNCHANGED <<resolveVars, extVars>>

\* Mutant: the loop has no page bound.
PageLoopRuns_NoLimit == Truthy(currentCursor)

\* while (currentCursor && pagesLoaded < maxAdditionalPages)
PageLoopRuns == Truthy(currentCursor) /\ pagesLoaded < maxAdditionalPages

\* Mutant: the cursor-page events are put in front of the list.
ReturnPages_PagesFirst(addl) ==
  /\ events' = addl \o events
  /\ pc' = "materialize"
  /\ StartSecondPass

\* fetchAdditionalPages returns and listRuns appends its events.
ReturnPages(addl) ==
  /\ events' = events \o addl
  /\ pc' = "materialize"
  /\ StartSecondPass

\* Mutant: a failed page request discards the pages loaded before it.
EventsAfterPageError_Drop(addl) == <<>>

\* catch (_error) { break }: the pages loaded so far are returned.
EventsAfterPageError(addl) == addl

\* One iteration of the page loop: the request fails, the page is
\* empty, or its events are appended and the next cursor is read.
FetchPage ==
  /\ pc = "pages"
  /\ PageLoopRuns
  /\ \/ /\ upPageFailed' = TRUE
        /\ ReturnPages(EventsAfterPageError(additionalEvents))
        /\ UNCHANGED <<additionalEvents, pagesLoaded, currentCursor, upPages>>
     \/ /\ ReturnPages(additionalEvents)
        /\ UNCHANGED <<additionalEvents, pagesLoaded, currentCursor, upPages, upPageFailed>>
     \/ \E pageEvents \in PagePool(upKind), nc \in PageCursors :
          /\ Gathered + Len(pageEvents) <= EventBudget(upKind)
          /\ additionalEvents' = additionalEvents \o pageEvents
          /\ upPages' = upPages \o pageEvents
          /\ pagesLoaded' = pagesLoaded + 1
          /\ UNCHANGED upPageFailed
          /\ IF Truthy(nc) /\ nc # currentCursor
               THEN /\ currentCursor' = nc
                    /\ UNCHANGED <<pc, events, idx, seenRunIds, runs>>
               ELSE /\ ReturnPages(additionalEvents')
                    /\ UNCHANGED currentCursor
  /\ pageRequests' = pageRequests + 1
  /\ UNCHANGED <<collectVars, initialCursor, maxResults, results, outOfOrder, upInitial,
                 result, upLookup, getRunCalls>>
  /\ UNCHANGED <<resolveVars, extVars>>

\* The loop condition is false: no cursor, or 20 pages loaded.
PagesExit ==
  /\ pc = "pages"
  /\ ~PageLoopRuns
  /\ ReturnPages(additionalEvents)
  /\ UNCHANGED <<collectVars, initialCursor, maxResults, results, outOfOrder, currentCursor,
                 pagesLoaded, additionalEvents, upInitial, upPages, upPageFailed,
                 pageRequests, result, upLookup, getRunCalls>>
  /\ UNCHANGED <<resolveVars, extVars>>

\* Mutant: the dedup set is never consulted.
AlreadySeen_Never(runId, seen) == FALSE

\* seenRunIds.has(runId)
AlreadySeen(runId, seen) == runId \in seen

\* Mutant: a run id is remembered only when its lookup succeeded.
SeenAfterLookup_OnSuccess(seen, runId, answer) ==
  IF GetRunFails(answer) THEN seen ELSE seen \cup {runId}

\* seenRunIds.add(runId), ahead of the lookup and whatever its outcome.
SeenAfterLookup(seen, runId, answer) == seen \cup {runId}

\* Second pass, one event: an event without run_id or with a run_id
\* already seen is passed over; otherwise the run is looked up, and a
\* failed lookup or a filtered run adds nothing.
MaterializeStep ==
  /\ pc = "materialize"
  /\ idx <= Len(events)
  /\ idx' = idx + 1
  /\ LET e == events[idx]
     IN IF HasRunId(e) /\ ~AlreadySeen(e.run_id, seenRunIds)
          THEN /\ \E answer \in LookupAnswers(e.run_id) :
                    /\ seenRunIds' = SeenAfterLookup(seenRunIds, e.run_id, answer)
                    /\ upLookup' = [upLookup EXCEPT ![e.run_id] = answer]
                    /\ getRunCalls' = Append(getRunCalls, e.run_id)
                    /\ IF GetRunFails(answer)
                         THEN UNCHANGED runs
                         ELSE LET enrichedRun == EnrichedRun(answer, events)
                              IN IF PassesFilters(listOptions, enrichedRun)
                                   THEN runs' = Append(runs, enrichedRun)
                                   ELSE UNCHANGED runs
          ELSE UNCHANGED <<seenRunIds, runs, upLookup, getRunCalls>>
  /\ UNCHANGED <<collectVars, pc, fetchVars, result>>
  /\ UNCHANGED <<resolveVars, extVars>>

\* runs.slice(0, options.limit || 20), validated against
\* ListRunsResponseSchema; the result carries data and metadata only.
ListResult(o, rs) == Slice(rs, IF o.limit = 0 THEN DefaultLimit ELSE o.limit)

ListResponse(data) ==
  [size |-> Len(data), has_more |-> "undefined", cursor |-> UndefinedAtom]

ListReturn ==
  /\ pc = "materialize"
  /\ idx > Len(events)
  /\ LET data == ListResult(listOptions, runs)
     IN IF \A k \in 1..Len(data) : InngestRunSchemaOk(data[k])
          THEN /\ result' = data
               /\ response' = ListResponse(data)
               /\ pc' = "response"
          ELSE /\ pc' = "threw:validation"
               /\ UNCHANGED <<result, response>>
  /\ UNCHANGED <<opts, client, upKind, listOptions, cursorForRequest, nextCursor,
                 hasMoreAvailable, collected, calls, allMore,
                 fetchVars, idx, seenRunIds, runs, upLookup, getRunCalls>>
  /\ UNCHANGED <<resolveVars, extVars>>

IdleResolver ==
  /\ entry = "none" /\ rpc = "idle" /\ idInput = <<>> /\ clientCalls = <<>>
  /\ lookups = <<>> /\ answers = <<>> /\ upListing = "none" /\ candidates = <<>> /\ scanIdx = 1
  /\ found = NoRun /\ resolved = NoResolved /\ thrown = "none"

MaxWatches == 2  \* accepted watch calls on one RunWatcher

\* A watch slot before its call: the closure variables of watchRun /
\* watchEventRuns (lastStatus, lastRunCount, startTime, options) and
\* the record of what the watch did.
NoWatch ==
  [mode |-> "none", lastStatus |-> "", lastRunCount |-> 0, startTime |-> 0,
   maxDuration |-> 0, phase |-> "unused", inflight |-> 0, polls |-> 0,
   renders |-> 0, observed |-> <<>>, ended |-> FALSE, latePoll |-> FALSE]

\* No check has settled yet.
NoCheck ==
  [seq |-> 0, k |-> 0, answer |-> [failed |-> FALSE, status |-> "none", runs |-> <<>>],
   elapsed |-> 0, result |-> "none"]

\* new RunWatcher(client): isWatching = false, intervalId = null.
IdleWatcher ==
  /\ isWatching = FALSE /\ intervalId = 0 /\ timers = {}
  /\ watch = [k \in 1..MaxWatches |-> NoWatch]
  /\ nextWatch = 0 /\ lastCall = "none" /\ now = 0
  /\ proc = "running" /\ cmd = "idle" /\ shown = 0 /\ lastCheck = NoCheck

NoRecord ==
  [run_id |-> "", status |-> "none", run_started_at |-> Undefined, ended_at |-> Undefined]
IdleValidator == record = NoRecord /\ verdict = "none"

\* Options of a cancel command that was not invoked.
NoCancelOptions ==
  [run |-> Undefined, function |-> Undefined, appId |-> Undefined, after |-> Undefined,
   before |-> Undefined, if |-> Undefined, dryRun |-> FALSE, yes |-> FALSE]
IdleCancel ==
  /\ cancelOptions = NoCancelOptions /\ cancelPc = "idle"
  /\ requests = <<>> /\ http = <<>> /\ cancelOutcome = "none"

\* A parameter or option that is not set.
NoTime == -1
NoParams == [received_after |-> NoTime, received_before |-> NoTime]
NoTimeOptions == [after |-> NoTime, before |-> NoTime, hours |-> 0, status |-> UndefinedAtom]
IdleWindow ==
  /\ timeOptions = NoTimeOptions /\ wpc = "idle"
  /\ eventsParams = NoParams /\ chunkParams = <<>>
IdleTools == IdleCancel /\ IdleWindow
IdleExt == IdleWatcher /\ IdleValidator /\ IdleTools

vars == <<collectVars, pc, listVars, resolveVars, extVars>>

\* collectRuns over the real client.
ListOptionSet ==
  [status : StatusFilters, function_id : FunctionFilters, cursor : {UndefinedAtom},
   limit : Limits, hours : HoursChoices, fetchAll : {FALSE}]

Init ==
  /\ \E o \in ListOptionSet : InitCollect(o, "real")
  /\ pc = "call"
  /\ InitList
  /\ IdleResolver
  /\ IdleExt

Next ==
  \/ CollectCall
  \/ FetchInitialFails
  \/ FetchInitial
  \/ \E i \in 1..MaxParallelChunks : SettleChunk(i)
  \/ MergeChunks
  \/ FetchPage
  \/ PagesExit
  \/ MaterializeStep
  \/ ListReturn
  \/ CollectResponse

Spec == Init /\ [][Next]_vars

IdleOptions ==
  [status |-> UndefinedAtom, function_id |-> Undefined, cursor |-> UndefinedAtom,
   limit |-> 1, hours |-> 0, fetchAll |-> FALSE]

\* fetchTimeBasedChunks called on its own, with any hours and
\* maxResults: the requests are issued, settle in any order
\* (SettleChunk), and the merged list is returned.
ChunkHoursChoices == {0, 24, 36, 48}
MaxResultsChoices == {0, 1, 2}

InitChunks ==
  /\ InitCollect(IdleOptions, "none")
  /\ IdleResolver
  /\ IdleExt
  /\ \E h \in ChunkHoursChoices, m \in MaxResultsChoices :
       /\ maxResults = m
       /\ results = [i \in 1..NumChunkRequests(h) |-> ChunkPending]
  /\ pc = "fanout"
  /\ events = <<>> /\ initialCursor = UndefinedAtom
  /\ currentCursor = UndefinedAtom /\ pagesLoaded = 0 /\ additionalEvents = <<>>
  /\ idx = 1 /\ seenRunIds = {} /\ runs = <<>> /\ result = <<>>
  /\ upInitial = <<>> /\ upPages = <<>> /\ upPageFailed = FALSE /\ pageRequests = 0
  /\ outOfOrder = FALSE /\ upKind = "varied"
  /\ upLookup = [r \in RunIds |-> NotAsked] /\ getRunCalls = <<>>

ReturnChunks ==
  /\ pc = "fanout"
  /\ PromiseAll(results)
  /\ events' = MergeChunkResults(results, maxResults)
  /\ pc' = "merged"
  /\ UNCHANGED <<collectVars, initialCursor, maxResults, results, outOfOrder, currentCursor,
                 pagesLoaded, additionalEvents, upInitial, upPages, upPageFailed,
                 pageRequests, passVars, resolveVars, extVars>>

NextChunks ==
  \/ \E i \in 1..MaxParallelChunks : SettleChunk(i)
  \/ ReturnChunks

SpecChunks == InitChunks /\ [][NextChunks]_vars

\* fetchTimeBasedChunks called on its own with the completion order of
\* its requests observed.
FanoutHours == {24, 36, 48}

InitFanout ==
  /\ InitCollect(IdleOptions, "none")
  /\ IdleResolver
  /\ IdleExt
  /\ \E h \in FanoutHours, m \in MaxResultsChoices :
       /\ maxResults = m
       /\ results = [i \in 1..NumChunkRequests(h) |-> ChunkPending]
  /\ pc = "fanout"
  /\ events = <<>> /\ initialCursor = UndefinedAtom
  /\ currentCursor = UndefinedAtom /\ pagesLoaded = 0 /\ additionalEvents = <<>>
  /\ idx = 1 /\ seenRunIds = {} /\ runs = <<>> /\ result = <<>>
  /\ upInitial = <<>> /\ upPages = <<>> /\ upPageFailed = FALSE /\ pageRequests = 0
  /\ outOfOrder = FALSE /\ upKind = "varied"
  /\ upLookup = [r \in RunIds |-> NotAsked] /\ getRunCalls = <<>>

NextFanout ==
  \/ \E i \in 1..MaxParallelChunks : SettleChunkObserved(i)
  \/ ReturnChunks

SpecFanout == InitFanout /\ [][NextFanout]_vars

\* fetchTimeBasedChunks as listRuns calls it in a status search, against
\* a uniform upstream: maxResults is the ceiling derived from the limit.
CeilingLimits == {0, 1, 50, 100}
CeilingHours == {36, 48}

InitCeiling ==
  /\ \E l \in CeilingLimits :
       /\ InitCollect([IdleOptions EXCEPT !.limit = l, !.status = "Failed"], "none")
       /\ maxResults = ListMaxResults(l)
  /\ IdleResolver
  /\ IdleExt
  /\ upKind = "uniform"
  /\ \E h \in CeilingHours : results = [i \in 1..NumChunkRequests(h) |-> ChunkPending]
  /\ pc = "fanout"
  /\ events = <<>> /\ initialCursor = UndefinedAtom /\ outOfOrder = FALSE
  /\ currentCursor = UndefinedAtom /\ pagesLoaded = 0 /\ additionalEvents = <<>>
  /\ idx = 1 /\ seenRunIds = {} /\ runs = <<>> /\ result = <<>>
  /\ upInitial = <<>> /\ upPages = <<>> /\ upPageFailed = FALSE /\ pageRequests = 0
  /\ upLookup = [r \in RunIds |-> NotAsked] /\ getRunCalls = <<>>

SpecCeiling == InitCeiling /\ [][NextChunks]_vars

\* fetchAdditionalPages called on its own against a uniform upstream:
\* any initial cursor, then one page request after the other, each of
\* which settles (with a failure, an empty page or a page).
InitPages ==
  /\ InitCollect(IdleOptions, "none")
  /\ IdleResolver
  /\ IdleExt
  /\ upKind = "uniform"
  /\ pc = "pages"
  /\ \E c \in OptCursors : initialCursor = c /\ currentCursor = c
  /\ events = <<>> /\ results = <<>> /\ maxResults = 0 /\ outOfOrder = FALSE
  /\ pagesLoaded = 0 /\ additionalEvents = <<>>
  /\ idx = 1 /\ seenRunIds = {} /\ runs = <<>> /\ result = <<>>
  /\ upInitial = <<>> /\ upPages = <<>> /\ upPageFailed = FALSE /\ pageRequests = 0
  /\ upLookup = [r \in RunIds |-> NotAsked] /\ getRunCalls = <<>>

NextPages ==
  \/ FetchPage
  \/ PagesExit

SpecPages == InitPages /\ [][NextPages]_vars /\ WF_vars(NextPages)

\* collectRuns over a stub client.
CollectOptionSet ==
  [status : {UndefinedAtom}, function_id : {Undefined}, cursor : OptCursors,
   limit : Limits, hours : {0}, fetchAll : BOOLEAN]

InitMock ==
  /\ \E o \in CollectOptionSet : InitCollect(o, "mock")
  /\ pc = "call"
  /\ InitList
  /\ IdleResolver
  /\ IdleExt

NextMock ==
  \/ CollectCall
  \/ MockListRuns
  \/ CollectResponse

SpecCollect == InitMock /\ [][NextMock]_vars

\* ------------------------------------------------------------------
\* Run resolver: validateRunId (config.ts), ensureRun (run-helpers.ts)
\* and InngestClient.findRunByPartialId.
\* ------------------------------------------------------------------
RunIdLength == 26

\* The character class [0-9A-HJKMNP-TV-Z].
UlidChars ==
  {"0", "1", "2", "3", "4", "5", "6", "7", "8", "9",
   "A", "B", "C", "D", "E", "F", "G", "H", "J", "K", "M", "N",
   "P", "Q", "R", "S", "T", "V", "W", "X", "Y", "Z"}

\* Mutant: the character class is checked, the length is not.
validateRunId_AnyLength(runId) ==
  /\ Len(runId) > 0
  /\ \A i \in 1..Len(runId) : runId[i] \in UlidChars

\* /^[0-9A-HJKMNP-TV-Z]{26}$/.test(runId)
validateRunId(runId) ==
  /\ Len(runId) = RunIdLength
  /\ \A i \in 1..Len(runId) : runId[i] \in UlidChars

\* partialId.length === 26 && /^[0-9A-HJKMNP-TV-Z]{26}$/.test(partialId)
LooksLikeFullUlid(partialId) ==
  /\ Len(partialId) = RunIdLength
  /\ \A i \in 1..Len(partialId) : partialId[i] \in UlidChars

FullIdA == <<"0", "1", "K", "4", "Z", "2", "5", "N", "H", "Y", "Z", "F", "H", "P", "R", "K", "E", "D", "1", "T", "V", "8", "4", "1", "0", "X">>
FullIdB == <<"0", "1", "H", "W", "A", "V", "E", "B", "8", "5", "8", "V", "P", "P", "X", "4", "7", "Z", "6", "5", "G", "R", "6", "1", "0", "X">>

\* Identifiers a user may type: full ids, suffixes of them, malformed
\* ids of length 26, ids of length 25 and 27, and the empty string.
IdInputs ==
  {FullIdA, FullIdB,
   SubSeq(FullIdA, 15, 26), SubSeq(FullIdB, 24, 26), <<"X">>, <<"Q", "Q">>,
   [FullIdA EXCEPT ![26] = "I"], [FullIdA EXCEPT ![1] = "a"],
   SubSeq(FullIdA, 2, 26), FullIdA \o <<"X">>, <<>>}

MaxCandidates == 2  \* events in the listEvents page scanned by the search

\* Events of the listEvents page: data.run_id is a string or missing.
CandidateEvents == {[run_id |-> FullIdA], [run_id |-> FullIdB], [run_id |-> Undefined]}

\* Upstream answers to GET /v1/runs/{id} in the resolver.
ResolverAnswers(id) ==
  {[run_id |-> id, status |-> "Completed"], [run_id |-> id, status |-> "Queued"],
   LookupFailure}

\* ensureRun picks its path from validateRunId alone.
EnsureStart ==
  /\ rpc = "ensure"
  /\ IF validateRunId(idInput)
       THEN clientCalls' = Append(clientCalls, "getRun") /\ rpc' = "direct"
       ELSE clientCalls' = Append(clientCalls, "findRunByPartialId") /\ rpc' = "find"
  /\ UNCHANGED <<entry, idInput, upListing, lookups, answers, candidates, scanIdx, found, resolved, thrown>>
  /\ UNCHANGED <<collectVars, pc, listVars, extVars>>

\* client.getRun(runIdInput): a failure propagates out of ensureRun.
DirectLookup ==
  /\ rpc = "direct"
  /\ lookups' = Append(lookups, idInput)
  /\ \E answer \in ResolverAnswers(idInput) :
       /\ answers' = Append(answers, answer)
       /\ IF GetRunFails(answer)
            THEN /\ thrown' = "lookup" /\ rpc' = "threw"
                 /\ UNCHANGED resolved
            ELSE /\ resolved' = [run |-> answer, runId |-> answer.run_id,
                                 usedPartial |-> FALSE]
                 /\ rpc' = "returned"
                 /\ UNCHANGED thrown
  /\ UNCHANGED <<entry, idInput, upListing, clientCalls, candidates, scanIdx, found>>
  /\ UNCHANGED <<collectVars, pc, listVars, extVars>>

\* findRunByPartialId, entry: a full ULID goes to getRun directly;
\* otherwise listEvents({ limit: 200 }) is fetched, and its failure
\* gives null.
FindStart ==
  /\ rpc = "find"
  /\ IF LooksLikeFullUlid(idInput)
       THEN /\ rpc' = "findDirect"
            /\ UNCHANGED <<candidates, scanIdx, found, upListing>>
       ELSE \/ /\ found' = NoRun /\ rpc' = "findReturned"
               /\ upListing' = "failed"
               /\ UNCHANGED <<candidates, scanIdx>>
            \/ \E evs \in SeqsUpTo(CandidateEvents, MaxCandidates) :
                 /\ candidates' = evs /\ scanIdx' = 1 /\ rpc' = "scan"
                 /\ upListing' = "ok"
                 /\ UNCHANGED found
  /\ UNCHANGED <<entry, idInput, clientCalls, lookups, answers, resolved, thrown>>
  /\ UNCHANGED <<collectVars, pc, listVars, extVars>>

\* try { return await this.getRun(partialId) } catch { return null }
FindDirect ==
  /\ rpc = "findDirect"
  /\ lookups' = Append(lookups, idInput)
  /\ \E answer \in ResolverAnswers(idInput) :
       /\ answers' = Append(answers, answer)
       /\ found' = IF GetRunFails(answer) THEN NoRun ELSE answer
  /\ rpc' = "findReturned"
  /\ UNCHANGED <<entry, idInput, upListing, clientCalls, candidates, scanIdx, resolved, thrown>>
  /\ UNCHANGED <<collectVars, pc, listVars, extVars>>

\* Mutant: a failed lookup ends the search.
ScanAfterFailure_Abort(evs, i) == Len(evs) + 1

\* catch {} around the lookup of a candidate: the loop goes on with the
\* next event.
ScanAfterFailure(evs, i) == i + 1

\* One event of the search loop: a run id ending with the identifier
\* is looked up; a failed lookup moves on to the next event.
ScanStep ==
  /\ rpc = "scan"
  /\ scanIdx <= Len(candidates)
  /\ LET e == candidates[scanIdx]
     IN IF e.run_id # Undefined /\ EndsWith(e.run_id, idInput)
          THEN /\ lookups' = Append(lookups, e.run_id)
               /\ \E answer \in ResolverAnswers(e.run_id) :
                    /\ answers' = Append(answers, answer)
                    /\ IF GetRunFails(answer)
                         THEN /\ scanIdx' = ScanAfterFailure(candidates, scanIdx)
                              /\ UNCHANGED <<found, rpc>>
                         ELSE /\ found' = answer /\ rpc' = "findReturned"
                              /\ UNCHANGED scanIdx
          ELSE /\ scanIdx' = scanIdx + 1
               /\ UNCHANGED <<lookups, answers, found, rpc>>
  /\ UNCHANGED <<entry, idInput, upListing, clientCalls, candidates, resolved, thrown>>
  /\ UNCHANGED <<collectVars, pc, listVars, extVars>>

\* The loop ran out of events: return null.
ScanEnd ==
  /\ rpc = "scan"
  /\ scanIdx > Len(candidates)
  /\ found' = NoRun /\ rpc' = "findReturned"
  /\ UNCHANGED <<entry, idInput, upListing, clientCalls, lookups, answers, candidates, scanIdx, resolved, thrown>>
  /\ UNCHANGED <<collectVars, pc, listVars, extVars>>

\* Back in ensureRun: null throws createRunNotFoundError, a run is
\* returned with usedPartial = true.
EnsureFinish ==
  /\ rpc = "findReturned"
  /\ entry = "ensureRun"
  /\ IF found = NoRun
       THEN /\ thrown' = "notfound" /\ rpc' = "threw"
            /\ UNCHANGED resolved
       ELSE /\ resolved' = [run |-> found, runId |-> found.run_id, usedPartial |-> TRUE]
            /\ rpc' = "returned"
            /\ UNCHANGED thrown
  /\ UNCHANGED <<entry, idInput, upListing, clientCalls, lookups, answers, candidates, scanIdx, found>>
  /\ UNCHANGED <<collectVars, pc, listVars, extVars>>

InitResolve ==
  /\ InitCollect(IdleOptions, "none")
  /\ pc = "idle"
  /\ InitList
  /\ \E f \in {"ensureRun", "findRunByPartialId"}, id \in IdInputs :
       /\ entry = f /\ idInput = id
       /\ rpc = IF f = "ensureRun" THEN "ensure" ELSE "find"
  /\ clientCalls = <<>> /\ lookups = <<>> /\ answers = <<>> /\ upListing = "none" /\ candidates = <<>> /\ scanIdx = 1
  /\ found = NoRun /\ resolved = NoResolved /\ thrown = "none"
  /\ IdleExt

NextResolve ==
  \/ EnsureStart
  \/ DirectLookup
  \/ FindStart
  \/ FindDirect
  \/ ScanStep
  \/ ScanEnd
  \/ EnsureFinish

SpecResolve == InitResolve /\ [][NextResolve]_vars

\* ------------------------------------------------------------------
\* RunWatcher (polling): watchRun, watchEventRuns, stopWatching.
\* ------------------------------------------------------------------
MaxPolls == 3       \* lookups issued by the watches of one instance
MaxTime == 2        \* clock readings 0..MaxTime

\* ['Completed', 'Failed', 'Cancelled']
TerminalStatuses == {"Completed", "Failed", "Cancelled"}

\* WatchOptions.maxDuration: 0 stands for undefined.
MaxDurations == {0, 1}

\* Upstream answers to a poll: the request fails, or it carries the
\* status of the run (watchRun) or the statuses of the runs of the
\* event (watchEventRuns).
PollFailure == [failed |-> TRUE, status |-> "none", runs |-> <<>>]
RunPollAnswers ==
  {PollFailure} \cup
  {[failed |-> FALSE, status |-> st, runs |-> <<>>] :
     st \in {"Running", "Completed", "Cancelled", "Queued"}}
EventRunLists ==
  {<<>>, <<"Running">>, <<"Completed">>, <<"Queued">>, <<"Completed", "Running">>}
EventPollAnswers ==
  {PollFailure} \cup
  {[failed |-> FALSE, status |-> "none", runs |-> rs] : rs \in EventRunLists}

\* client.getRun(runId) rejects: request failure or validateResponse.
GetRunThrows(a) == a.failed \/ a.status \notin RunStatusSchema

\* client.getEventRuns(eventId) rejects: request failure or
\* EventRunsResponseSchema (z.array(InngestRunSchema)).
GetEventRunsThrows(a) ==
  a.failed \/ \E i \in 1..Len(a.runs) : a.runs[i] \notin RunStatusSchema

\* Mutant: every poll re-renders.
StatusChanged_Always(status, last) == TRUE

\* run.status !== lastStatus
StatusChanged(status, last) == status # last

\* Mutant: the limit itself counts as exceeded.
TimedOut_AtLimit(maxDuration, elapsed) == maxDuration # 0 /\ elapsed >= maxDuration

\* options.maxDuration && Date.now() - startTime > options.maxDuration
TimedOut(maxDuration, elapsed) == maxDuration # 0 /\ elapsed > maxDuration

\* runs.filter(run => run.status === 'Running')
ActiveRuns(rs) == {i \in 1..Len(rs) : rs[i] = "Running"}

\* The body of checkRun after the lookup settled with answer a at
\* time t: the closure after it and how the check ended ("error",
\* "terminal" and "timeout" call stopWatching, "error" calls
\* displayError).
CheckRun(w, a, t) ==
  IF GetRunThrows(a)
    THEN [w |-> [w EXCEPT !.ended = TRUE], result |-> "error"]
    ELSE
      LET rendered ==
            [w EXCEPT !.observed = Append(@, a.status),
                      !.renders = IF StatusChanged(a.status, w.lastStatus)
                                    THEN @ + 1 ELSE @,
                      !.lastStatus = a.status]
      IN IF a.status \in TerminalStatuses
           THEN [w |-> [rendered EXCEPT !.ended = TRUE], result |-> "terminal"]
           ELSE IF TimedOut(w.maxDuration, t - w.startTime)
             THEN [w |-> [rendered EXCEPT !.ended = TRUE], result |-> "timeout"]
             ELSE [w |-> rendered, result |-> "continue"]

\* The body of checkRuns after getEventRuns settled.
CheckRuns(w, a, t) ==
  IF GetEventRunsThrows(a)
    THEN [w |-> [w EXCEPT !.ended = TRUE], result |-> "error"]
    ELSE
      LET rendered ==
            [w EXCEPT !.renders = IF Len(a.runs) # w.lastRunCount THEN @ + 1 ELSE @,
                      !.lastRunCount = Len(a.runs)]
      IN IF ActiveRuns(a.runs) = {} /\ Len(a.runs) > 0
           THEN [w |-> [rendered EXCEPT !.ended = TRUE], result |-> "terminal"]
           ELSE IF TimedOut(w.maxDuration, t - w.startTime)
             THEN [w |-> [rendered EXCEPT !.ended = TRUE], result |-> "timeout"]
             ELSE [w |-> rendered, result |-> "continue"]

Stops(res) == res \in {"error", "terminal", "timeout"}

\* The record of a settled check of watch k.
CheckRecord(k, a, t, res) ==
  [seq |-> lastCheck.seq + 1, k |-> k, answer |-> a,
   elapsed |-> t - watch[k].startTime, result |-> res]

PollAnswers(w) == IF w.mode = "run" THEN RunPollAnswers ELSE EventPollAnswers
Check(w, a, t) == IF w.mode = "run" THEN CheckRun(w, a, t) ELSE CheckRuns(w, a, t)

\* Mutant: the guard at the head of watchRun / watchEventRuns is gone.
AlreadyWatching_Never(flag) == FALSE

\* if (this.isWatching) throw new Error('Already watching ...')
AlreadyWatching(flag) == flag

\* Mutant: stopWatching leaves the timer scheduled.
TimersAfterStop_Keep(ts, id) == ts

\* stopWatching: clearInterval(this.intervalId) when it is set.
TimersAfterStop(ts, id) == IF id # 0 THEN ts \ {id} ELSE ts

\* Lookups issued so far by all watches of the instance.
RECURSIVE PollsUpTo(_)
PollsUpTo(k) == IF k = 0 THEN 0 ELSE watch[k].polls + PollsUpTo(k - 1)
TotalPolls == PollsUpTo(MaxWatches)

\* What the watcher leaves alone.
WatcherFrame == UNCHANGED <<validateVars, toolVars, collectVars, pc, listVars, resolveVars>>

\* watchRun(runId, options) / watchEventRuns(eventId, options) up to
\* the first await: the guard, isWatching = true, the closure, and the
\* lookup of the initial check.
StartWatch(mode) ==
  /\ proc = "running"
  /\ IF AlreadyWatching(isWatching)
       THEN /\ lastCall' = "threw"
            /\ UNCHANGED <<isWatching, intervalId, timers, watch, nextWatch>>
       ELSE /\ nextWatch < MaxWatches
            /\ TotalPolls < MaxPolls
            /\ lastCall' = "started"
            /\ isWatching' = TRUE
            /\ nextWatch' = nextWatch + 1
            /\ \E d \in MaxDurations :
                 watch' = [watch EXCEPT ![nextWatch + 1] =
                             [NoWatch EXCEPT !.mode = mode, !.startTime = now,
                                             !.maxDuration = d, !.phase = "initial",
                                             !.polls = 1]]
            /\ UNCHANGED <<intervalId, timers>>
  /\ UNCHANGED <<now, proc, shown, lastCheck>>
  /\ WatcherFrame

\* A call made by the owner of the instance.
WatchCall(mode) == StartWatch(mode) /\ UNCHANGED cmd

\* await checkRun() of the initial check settles, then
\* if (this.isWatching) this.intervalId = setInterval(checkRun, ...).
InitialCheckDone(k) ==
  /\ proc = "running"
  /\ watch[k].phase = "initial"
  /\ \E a \in PollAnswers(watch[k]) :
       LET r == Check(watch[k], a, now)
           watching == IF Stops(r.result) THEN FALSE ELSE isWatching
           id == IF Stops(r.result) THEN 0 ELSE intervalId
           ts == IF Stops(r.result) THEN TimersAfterStop(timers, intervalId) ELSE timers
       IN /\ isWatching' = watching
          /\ intervalId' = IF watching THEN k ELSE id
          /\ timers' = IF watching THEN ts \cup {k} ELSE ts
          /\ watch' = [watch EXCEPT ![k] = [r.w EXCEPT !.phase = "settled"]]
          /\ shown' = IF r.result = "error" THEN shown + 1 ELSE shown
          /\ lastCheck' = CheckRecord(k, a, now, r.result)
  /\ UNCHANGED <<nextWatch, lastCall, now, proc, cmd>>
  /\ WatcherFrame

\* The interval of watch k fires: checkRun issues its lookup.
Tick(k) ==
  /\ proc = "running"
  /\ k \in timers
  /\ TotalPolls < MaxPolls
  /\ watch' = [watch EXCEPT ![k].polls = @ + 1, ![k].inflight = @ + 1,
                            ![k].latePoll = @ \/ watch[k].ended]
  /\ UNCHANGED <<isWatching, intervalId, timers, nextWatch, lastCall, now,
                 proc, shown, cmd, lastCheck>>
  /\ WatcherFrame

\* The lookup of a tick settles and the rest of checkRun runs.
TickDone(k) ==
  /\ proc = "running"
  /\ watch[k].inflight > 0
  /\ \E a \in PollAnswers(watch[k]) :
       LET r == Check(watch[k], a, now)
       IN /\ isWatching' = IF Stops(r.result) THEN FALSE ELSE isWatching
          /\ intervalId' = IF Stops(r.result) THEN 0 ELSE intervalId
          /\ timers' = IF Stops(r.result) THEN TimersAfterStop(timers, intervalId) ELSE timers
          /\ watch' = [watch EXCEPT ![k] = [r.w EXCEPT !.inflight = @ - 1]]
          /\ shown' = IF r.result = "error" THEN shown + 1 ELSE shown
          /\ lastCheck' = CheckRecord(k, a, now, r.result)
  /\ UNCHANGED <<nextWatch, lastCall, now, proc, cmd>>
  /\ WatcherFrame

\* stopWatching() called from outside the watcher.
StopWatchingCall ==
  /\ proc = "running"
  /\ nextWatch > 0
  /\ isWatching' = FALSE
  /\ intervalId' = 0
  /\ timers' = TimersAfterStop(timers, intervalId)
  /\ UNCHANGED <<watch, nextWatch, lastCall, now, proc, shown, cmd, lastCheck>>
  /\ WatcherFrame

\* Time passes.
ClockAdvance ==
  /\ proc = "running"
  /\ nextWatch > 0
  /\ now < MaxTime
  /\ now' = now + 1
  /\ UNCHANGED <<isWatching, intervalId, timers, watch, nextWatch, lastCall,
                 proc, shown, cmd, lastCheck>>
  /\ WatcherFrame

OtherIdle ==
  /\ InitCollect(IdleOptions, "none")
  /\ pc = "idle"
  /\ InitList
  /\ IdleResolver

\* A RunWatcher driven through its public methods.
InitWatcher == OtherIdle /\ IdleExt

NextWatcher ==
  \/ \E mode \in {"run", "event"} : WatchCall(mode)
  \/ \E k \in 1..MaxWatches : InitialCheckDone(k)
  \/ \E k \in 1..MaxWatches : Tick(k)
  \/ \E k \in 1..MaxWatches : TickDone(k)
  \/ StopWatchingCall
  \/ ClockAdvance

SpecWatcher == InitWatcher /\ [][NextWatcher]_vars

\* ------------------------------------------------------------------
\* The watch command (createWatchCommand) and the SIGINT handler.
\* ------------------------------------------------------------------
\* Invocations that throw inside the action's try block before a
\* watch starts: getConfig fails, no target, both targets, a malformed
\* run id, a malformed event id.
RejectedInvocations == {"noConfig", "noTarget", "bothTargets", "badRunId", "badEventId"}

\* catch (error) { displayError(error); process.exit(1) }
CmdRejects ==
  /\ proc = "running" /\ cmd = "idle"
  /\ \E why \in RejectedInvocations :
       /\ cmd' = "failed"
       /\ shown' = shown + 1
       /\ proc' = "exit1"
  /\ UNCHANGED <<isWatching, intervalId, timers, watch, nextWatch, lastCall, now, lastCheck>>
  /\ WatcherFrame

\* await watcher.watchRun(options.run, watchOptions) or
\* await watcher.watchEventRuns(options.event, watchOptions) on a new
\* RunWatcher.
CmdWatch ==
  /\ cmd = "idle"
  /\ \E mode \in {"run", "event"} : StartWatch(mode)
  /\ cmd' = "awaiting"

\* The awaited call resolves: the action returns.
CmdReturn ==
  /\ proc = "running" /\ cmd = "awaiting"
  /\ watch[1].phase = "settled"
  /\ cmd' = "returned"
  /\ UNCHANGED <<isWatching, intervalId, timers, watch, nextWatch, lastCall, now, proc,
                 shown, lastCheck>>
  /\ WatcherFrame

\* Nothing is left to run (no timer, no lookup in flight): the process
\* ends with exit status 0.
ProcessDrains ==
  /\ proc = "running" /\ cmd = "returned"
  /\ timers = {}
  /\ \A k \in 1..MaxWatches : watch[k].inflight = 0
  /\ proc' = "exit0" /\ cmd' = "finished"
  /\ UNCHANGED <<isWatching, intervalId, timers, watch, nextWatch, lastCall, now,
                 shown, lastCheck>>
  /\ WatcherFrame

\* process.on('SIGINT', () => { displayInfo(...); process.exit(0) })
Sigint ==
  /\ proc = "running"
  /\ cmd \in {"awaiting", "returned"}
  /\ proc' = "exit0" /\ cmd' = "interrupted"
  /\ UNCHANGED <<isWatching, intervalId, timers, watch, nextWatch, lastCall, now,
                 shown, lastCheck>>
  /\ WatcherFrame

InitWatchCommand == OtherIdle /\ IdleExt

NextWatchCommand ==
  \/ CmdRejects
  \/ CmdWatch
  \/ CmdReturn
  \/ \E k \in 1..MaxWatches : InitialCheckDone(k)
  \/ \E k \in 1..MaxWatches : Tick(k)
  \/ \E k \in 1..MaxWatches : TickDone(k)
  \/ ClockAdvance
  \/ ProcessDrains
  \/ Sigint

SpecWatchCommand == InitWatchCommand /\ [][NextWatchCommand]_vars

\* ------------------------------------------------------------------
\* InngestRunSchema.parse on one record.
\* ------------------------------------------------------------------
Digits == {"0", "1", "2", "3", "4", "5", "6", "7", "8", "9"}

\* z.string().datetime(): YYYY-MM-DDTHH:MM:SS, an optional fraction,
\* and a final Z (no offset).
IsDatetime(t) ==
  /\ t # Undefined
  /\ Len(t) >= 20
  /\ \A i \in {1, 2, 3, 4, 6, 7, 9, 10, 12, 13, 15, 16, 18, 19} : t[i] \in Digits
  /\ t[5] = "-" /\ t[8] = "-" /\ t[11] = "T" /\ t[14] = ":" /\ t[17] = ":"
  /\ t[Len(t)] = "Z"
  /\ Len(t) > 20 =>
       /\ t[20] = "." /\ Len(t) >= 22
       /\ \A i \in 21..(Len(t) - 1) : t[i] \in Digits

DatetimeMillis == <<"2", "0", "2", "4", "-", "0", "4", "-", "2", "5", "T", "1", "4", ":", "4", "6", ":", "4", "5", ".", "3", "3", "7", "Z">>
DatetimeSeconds == <<"2", "0", "2", "4", "-", "0", "4", "-", "2", "5", "T", "1", "4", ":", "4", "6", ":", "4", "5", "Z">>
DateOnly == <<"2", "0", "2", "4", "-", "0", "4", "-", "2", "5">>
DatetimeOffset == <<"2", "0", "2", "4", "-", "0", "4", "-", "2", "5", "T", "1", "4", ":", "4", "6", ":", "4", "5", "+", "0", "2", ":", "0", "0">>

\* The records handed to the validator: run_id missing, empty or
\* present; any status the API or a caller may send; timestamps
\* missing, well formed or malformed.
RecordStatuses ==
  {"Queued", "Running", "Completed", "Failed", "Cancelled", "InvalidStatus", UndefinedAtom}
ParseInputs ==
  [run_id : {UndefinedAtom, "", "A"},
   status : RecordStatuses,
   run_started_at : {Undefined, DatetimeMillis, DatetimeSeconds, DateOnly, DatetimeOffset},
   ended_at : {Undefined, DatetimeMillis, DateOnly}]

\* InngestRunSchema: run_id z.string().min(1), status RunStatusSchema,
\* run_started_at datetime, ended_at optional datetime (the other
\* fields are optional and absent here).
InngestRunSchemaParse(r) ==
  /\ r.run_id # UndefinedAtom /\ r.run_id # ""
  /\ r.status \in RunStatusSchema
  /\ IsDatetime(r.run_started_at)
  /\ r.ended_at # Undefined => IsDatetime(r.ended_at)

Parse ==
  /\ verdict = "none"
  /\ verdict' = IF InngestRunSchemaParse(record) THEN "accepted" ELSE "rejected"
  /\ UNCHANGED <<record, watchVars, toolVars, collectVars, pc, listVars, resolveVars>>

InitValidate ==
  /\ OtherIdle /\ IdleWatcher /\ IdleTools
  /\ record \in ParseInputs
  /\ verdict = "none"

NextValidate == Parse

SpecValidate == InitValidate /\ [][NextValidate]_vars

\* ------------------------------------------------------------------
\* The cancel command (createCancelCommand) with InngestClient.cancelRun
\* and InngestClient.bulkCancel.
\* ------------------------------------------------------------------
\* Date.parse on the texts of CancelInputs: an ISO date, alone or
\* followed by a time part, parses; anything else is NaN.
DateParseIsNaN(t) ==
  ~(/\ Len(t) >= 10
    /\ \A i \in {1, 2, 3, 4, 6, 7, 9, 10} : t[i] \in Digits
    /\ t[5] = "-" /\ t[8] = "-"
    /\ (Len(t) = 10 \/ t[11] = "T"))

NotADate == <<"s", "o", "o", "n">>

\* What commander hands to the action: each string option missing,
\* empty or given; the two flags.
CancelInputs ==
  [run : {Undefined, <<>>, FullIdA, [FullIdA EXCEPT ![26] = "I"]},
   function : {Undefined, <<"f">>},
   appId : {Undefined, <<"a">>},
   after : {Undefined, DatetimeMillis, DateOnly, NotADate},
   before : {Undefined, NotADate},
   if : {Undefined, <<"e">>},
   dryRun : BOOLEAN,
   yes : BOOLEAN]

\* options.function || options.appId || options.after || options.before
\* || options.if
BulkOptionsGiven(o) ==
  \/ TruthyText(o.function) \/ TruthyText(o.appId) \/ TruthyText(o.after)
  \/ TruthyText(o.before) \/ TruthyText(o.if)

\* !options.yes prints the warning and returns.
Confirmed(o) == o.yes

\* Mutant: --dry-run is ignored.
DryRun_Never(o) == FALSE

\* if (options.dryRun) { displayInfo(...); return }
DryRun(o) == o.dryRun

\* The path the action takes after getConfig succeeded: "error" is a
\* throw inside the try block, "dryRun" and "needsYes" are the early
\* returns, "cancelRun" and "bulkCancel" the client method it awaits.
CancelDecision(o) ==
  IF TruthyText(o.run)
    THEN IF BulkOptionsGiven(o) THEN "error"
         ELSE IF ~validateRunId(o.run) THEN "error"
         ELSE IF DryRun(o) THEN "dryRun"
         ELSE IF ~Confirmed(o) THEN "needsYes"
         ELSE "cancelRun"
    ELSE IF ~TruthyText(o.function) THEN "error"
         ELSE IF ~TruthyText(o.appId) THEN "error"
         ELSE IF TruthyText(o.after) /\ DateParseIsNaN(o.after) THEN "error"
         ELSE IF TruthyText(o.before) /\ DateParseIsNaN(o.before) THEN "error"
         ELSE IF DryRun(o) THEN "dryRun"
         ELSE IF ~Confirmed(o) THEN "needsYes"
         ELSE "bulkCancel"

\* CancellationRequestSchema.parse(request): started_after and
\* started_before are optional datetimes, the other fields optional
\* strings.
CancellationRequestOk(o) ==
  /\ o.after # Undefined => IsDatetime(o.after)
  /\ o.before # Undefined => IsDatetime(o.before)

\* The request each client method sends; bulkCancel validates first
\* and sends nothing when the validation throws.
HttpOf(method, o) ==
  IF method = "cancelRun" THEN <<"DELETE /v1/runs">>
  ELSE IF CancellationRequestOk(o) THEN <<"POST /v1/cancellations">>
  ELSE <<>>

CancelFrame ==
  UNCHANGED <<watchVars, validateVars, windowVars, collectVars, pc, listVars, resolveVars>>

\* The action up to its first await or its return; getConfig may throw.
CancelAction ==
  /\ cancelPc = "start"
  /\ \/ /\ cancelOutcome' = "error" /\ cancelPc' = "done"
        /\ UNCHANGED <<requests, http>>
     \/ LET d == CancelDecision(cancelOptions)
        IN IF d \in {"cancelRun", "bulkCancel"}
             THEN /\ requests' = Append(requests, d)
                  /\ http' = http \o HttpOf(d, cancelOptions)
                  /\ cancelPc' = "awaiting"
                  /\ UNCHANGED cancelOutcome
             ELSE /\ cancelOutcome' = d /\ cancelPc' = "done"
                  /\ UNCHANGED <<requests, http>>
  /\ UNCHANGED cancelOptions
  /\ CancelFrame

\* The awaited client method settles: displaySuccess, or the catch
\* block (displayError, process.exit(1)).
CancelSettles ==
  /\ cancelPc = "awaiting"
  /\ \/ /\ http # <<>>
        /\ cancelOutcome' = "cancelled"
     \/ cancelOutcome' = "error"
  /\ cancelPc' = "done"
  /\ UNCHANGED <<cancelOptions, requests, http>>
  /\ CancelFrame

InitCancel ==
  /\ OtherIdle /\ IdleWatcher /\ IdleValidator /\ IdleWindow
  /\ cancelOptions \in CancelInputs
  /\ cancelPc = "start"
  /\ requests = <<>> /\ http = <<>> /\ cancelOutcome = "none"

NextCancel ==
  \/ CancelAction
  \/ CancelSettles

SpecCancel == InitCancel /\ [][NextCancel]_vars

\* ------------------------------------------------------------------
\* The time range of InngestClient.listRuns: the parameters of the
\* initial events query and of the chunk queries.
\* ------------------------------------------------------------------
\* setMonth(getMonth() - 6), in hours.
StatusLookbackHours == 4380

AfterChoices == {NoTime, 6, 30, 200}
BeforeChoices == {NoTime, 0, 20}
WindowHoursChoices == {0, 6, 18, 24, 36, 200}
TimeOptionSet ==
  [after : AfterChoices, before : BeforeChoices, hours : WindowHoursChoices,
   status : StatusFilters]

Given(t) == t # NoTime

\* if (options.after) ... else if (options.before) ... else if
\* (options.hours) ... else if (options.status) ...
EventsParams(o) ==
  IF Given(o.after) THEN [received_after |-> o.after, received_before |-> NoTime]
  ELSE IF Given(o.before) THEN [received_after |-> NoTime, received_before |-> o.before]
  ELSE IF o.hours # 0 THEN [received_after |-> o.hours, received_before |-> NoTime]
  ELSE IF Truthy(o.status)
    THEN [received_after |-> StatusLookbackHours, received_before |-> NoTime]
  ELSE NoParams

totalHours(o) == IF o.hours = 0 THEN DefaultTotalHours ELSE o.hours

\* new URLSearchParams(baseParams) with received_after set to now minus
\* startHours and received_before set to now minus endHours.
ChunkParams(base, i, o) ==
  LET endHours == i * chunkHours
      startHours == Min((i + 1) * chunkHours, totalHours(o))
  IN [base EXCEPT !.received_after = startHours, !.received_before = endHours]

\* for (let i = 1; i < chunks && i <= 6; i++)
ChunkLoopRuns(i, o) ==
  i < CeilDiv(totalHours(o), chunkHours) /\ i <= MaxParallelChunks

WindowFrame ==
  UNCHANGED <<watchVars, validateVars, cancelVars, collectVars, pc, listVars, resolveVars>>

\* listRuns builds eventsParams and sends the initial query; with a
\* status filter it enters fetchTimeBasedChunks.
BuildEventsParams ==
  /\ wpc = "start"
  /\ eventsParams' = EventsParams(timeOptions)
  /\ wpc' = IF Truthy(timeOptions.status) THEN "chunking" ELSE "done"
  /\ UNCHANGED <<timeOptions, chunkParams>>
  /\ WindowFrame

\* One iteration of the loop that creates the chunk requests.
ChunkLoopStep ==
  /\ wpc = "chunking"
  /\ ChunkLoopRuns(Len(chunkParams) + 1, timeOptions)
  /\ chunkParams' =
       Append(chunkParams, ChunkParams(eventsParams, Len(chunkParams) + 1, timeOptions))
  /\ UNCHANGED <<timeOptions, wpc, eventsParams>>
  /\ WindowFrame

ChunkLoopExit ==
  /\ wpc = "chunking"
  /\ ~ChunkLoopRuns(Len(chunkParams) + 1, timeOptions)
  /\ wpc' = "done"
  /\ UNCHANGED <<timeOptions, eventsParams, chunkParams>>
  /\ WindowFrame

InitWindow ==
  /\ OtherIdle /\ IdleWatcher /\ IdleValidator /\ IdleCancel
  /\ timeOptions \in TimeOptionSet
  /\ wpc = "start"
  /\ eventsParams = NoParams /\ chunkParams = <<>>

NextWindow ==
  \/ BuildEventsParams
  \/ ChunkLoopStep
  \/ ChunkLoopExit

SpecWindow == InitWindow /\ [][NextWindow]_vars

\* ------------------------------------------------------------------
\* Properties.
\* ------------------------------------------------------------------
Returned == pc \in {"response", "done"}

RunIdsOf(rs) == {rs[k].run_id : k \in 1..Len(rs)}
ReferencedRuns(evs) == {evs[k].run_id : k \in {j \in 1..Len(evs) : HasRunId(evs[j])}}

\* C1: the list returned by one listRuns call never contains two runs
\* with the same run_id, whatever events the initial page, the chunks
\* and the cursor pages delivered.
C1_NoDuplicateRuns ==
  /\ \A i, j \in 1..Len(runs) : i # j => runs[i].run_id # runs[j].run_id
  /\ \A i, j \in 1..Len(result) : i # j => result[i].run_id # result[j].run_id

\* Two events from two sources (a chunk and a cursor page) reference
\* one run, which is returned.
C1_Witness ==
  /\ Returned
  /\ Len(events) = 2
  /\ \A k \in 1..2 : events[k].run_id = "A"
  /\ ChunkEventCount(results, 1) = 1 /\ Len(upPages) = 1
  /\ "A" \in RunIdsOf(result)

RECURSIVE FirstNameFrom(_, _, _)
FirstNameFrom(evs, k, r) ==
  IF k > Len(evs) THEN Undefined
  ELSE IF evs[k].run_id = r /\ HasFunctionId(evs[k]) THEN evs[k].function_id
  ELSE FirstNameFrom(evs, k + 1, r)

\* C3: the function_name attached to a returned run is the one carried
\* by the first event referencing that run; later events for the same
\* run never change it.
C3_FirstEventNameWins ==
  Returned =>
    \A k \in 1..Len(result) :
      result[k].function_name = FirstNameFrom(events, 1, result[k].run_id)

\* C4: fetch-all against an upstream whose every response reports
\* has_more = true with a cursor stops at exactly 1000 collected runs
\* and returns hasMore = true.
C4_StopsExactlyAtCeiling ==
  (pc = "done" /\ opts.fetchAll /\ allMore) =>
    (collected = SAFETY_LIMIT /\ hasMoreAvailable)

\* C5 as stated: in fetch-all mode a return with 1000 or more collected
\* runs has hasMore = true, whatever the last response carried.
C5_CeilingForcesHasMore ==
  (pc = "done" /\ opts.fetchAll /\ collected >= SAFETY_LIMIT) => hasMoreAvailable

\* C5 as amended: in fetch-all mode a return with 1000 or more
\* collected runs has hasMore = true exactly when the last response
\* carried has_more = true together with a cursor.
C5_HasMoreFollowsLastResponse ==
  (pc = "done" /\ opts.fetchAll /\ collected >= SAFETY_LIMIT) =>
    (hasMoreAvailable <=> (response.has_more = "true" /\ response.cursor \in {"c1", "c2"}))

\* The ceiling stopped a fetch-all collection whose upstream had more.
C5_Witness ==
  /\ pc = "done" /\ opts.fetchAll /\ collected >= SAFETY_LIMIT
  /\ hasMoreAvailable
  /\ response.has_more = "true"

\* C6 as stated: without fetchAll, one listRuns call with the caller's
\* cursor and limit, and that response's has_more and cursor returned
\* unchanged.
C6_SinglePageVerbatim ==
  (pc = "done" /\ ~opts.fetchAll) =>
    /\ calls = 1
    /\ listOptions.limit = opts.limit
    /\ Truthy(opts.cursor) => listOptions.cursor = opts.cursor
    /\ hasMoreAvailable <=> (response.has_more = "true")
    /\ Truthy(response.cursor) => nextCursor = response.cursor

\* C6 as amended: without fetchAll, one listRuns call with the caller's
\* limit and (non-empty) cursor; hasMore is true exactly when the
\* response carries has_more = true and a non-empty cursor, and
\* nextCursor is the response's cursor, null when absent or empty.
C6_SinglePageResult ==
  (pc = "done" /\ ~opts.fetchAll) =>
    /\ calls = 1
    /\ listOptions.limit = opts.limit
    /\ listOptions.cursor = (IF opts.cursor = "" THEN UndefinedAtom ELSE opts.cursor)
    /\ hasMoreAvailable <=>
         (response.has_more = "true" /\ response.cursor \in {"c1", "c2"})
    /\ nextCursor = (IF response.cursor = "" THEN UndefinedAtom ELSE response.cursor)

\* A single-page collection whose response reported has_more = true
\* without a cursor.
C6_Witness ==
  /\ pc = "done" /\ ~opts.fetchAll /\ calls = 1
  /\ response.has_more = "true" /\ response.cursor = UndefinedAtom
  /\ ~hasMoreAvailable
  /\ opts.cursor = "c1"

\* C7: whenever the initial events page of the listRuns call exposed a
\* continuation cursor, collectRuns returns hasMore = true with a
\* non-null nextCursor.
C7_HasMoreReflectsEvents ==
  (pc = "done" /\ client = "real" /\ Truthy(initialCursor)) =>
    (hasMoreAvailable /\ Truthy(nextCursor))

\* The results array without its k-th entry.
RemoveAt(rs, k) == SubSeq(rs, 1, k - 1) \o SubSeq(rs, k + 1, Len(rs))

\* The events of the chunks that did not fail, in chunk order.
RECURSIVE FlattenOk(_, _)
FlattenOk(rs, k) ==
  IF k > Len(rs) THEN <<>>
  ELSE (IF rs[k].error THEN <<>> ELSE rs[k].events) \o FlattenOk(rs, k + 1)

EffectiveMaxResults == IF maxResults = 0 THEN DefaultMaxResults ELSE maxResults

\* C8: when a chunk request fails, the merged list equals the list
\* obtained with that chunk left out, and it holds the events of the
\* other chunks, in chunk order, up to maxResults.
C8_ChunkFailureIsolated ==
  pc = "merged" =>
    \A k \in 1..Len(results) :
      results[k].error =>
        /\ events = MergeChunkResults(RemoveAt(results, k), maxResults)
        /\ events = Slice(FlattenOk(results, 1), EffectiveMaxResults)

\* A failed chunk lies between two chunks whose events are both merged.
C8_Witness ==
  /\ pc = "merged"
  /\ Len(results) >= 3
  /\ \E k \in 2..(Len(results) - 1) :
       /\ results[k].error
       /\ \E i \in 1..(k - 1) : Len(results[i].events) > 0
       /\ \E j \in (k + 1)..Len(results) : Len(results[j].events) > 0
  /\ Len(events) >= 2

\* C9: listRuns throws only when the initial page fetch fails; a failed
\* chunk, cursor page or run lookup contributes nothing, the events of
\* every other source are kept, every referenced run is still looked
\* up, and the runs returned are runs whose lookup succeeded.
C9_FailuresAbsorbed ==
  /\ pc # "threw:validation"
  /\ pc = "threw:initial" =>
       /\ upInitial = <<>> /\ results = <<>> /\ upPages = <<>>
       /\ \A r \in RunIds : upLookup[r] = NotAsked
  /\ Returned =>
       /\ events = upInitial \o Slice(FlattenOk(results, 1), EffectiveMaxResults) \o upPages
       /\ \A r \in ReferencedRuns(events) : upLookup[r] # NotAsked
       /\ \A r \in RunIdsOf(runs) : ~GetRunFails(upLookup[r])
       /\ \A r \in ReferencedRuns(events) :
            (~GetRunFails(upLookup[r]) /\ ~Truthy(opts.status) /\ ~TruthyText(opts.function_id))
              => r \in RunIdsOf(runs)
       /\ RunIdsOf(result) \subseteq RunIdsOf(runs)
       /\ Len(runs) > 0 => Len(result) > 0

\* A chunk, a cursor page and a run lookup failed in one call, and the
\* call returned a run found through a page delivered before the failure.
C9_Witness ==
  /\ Returned
  /\ \E k \in 1..Len(results) : results[k].error
  /\ upPageFailed /\ Len(upPages) > 0
  /\ \E r \in RunIds : upLookup[r] = LookupFailure
  /\ \E k \in 1..Len(result) :
       /\ result[k].run_id \in ReferencedRuns(upPages)
       /\ result[k].run_id \notin ReferencedRuns(upInitial)

\* Identifiers of the canonical run-ID shape among IdInputs.
CanonicalInputs == {FullIdA, FullIdB}

\* C10: ensureRun takes one resolution path per call: getRun alone for
\* an identifier of the canonical shape (usedPartial = false, no search,
\* also when the lookup fails), findRunByPartialId alone for any other
\* identifier (a resolved run has usedPartial = true).
C10_OneResolutionPath ==
  entry = "ensureRun" =>
    /\ Len(clientCalls) <= 1
    /\ rpc \in {"returned", "threw"} => Len(clientCalls) = 1
    /\ idInput \in CanonicalInputs =>
         /\ \A k \in 1..Len(clientCalls) : clientCalls[k] = "getRun"
         /\ candidates = <<>> /\ found = NoRun
         /\ \A k \in 1..Len(lookups) : lookups[k] = idInput
         /\ Len(lookups) <= 1
         /\ rpc = "returned" => (~resolved.usedPartial /\ resolved.runId = idInput)
         /\ thrown # "notfound"
    /\ idInput \notin CanonicalInputs =>
         /\ \A k \in 1..Len(clientCalls) : clientCalls[k] = "findRunByPartialId"
         /\ rpc = "returned" =>
              (resolved.usedPartial /\ resolved.run = found /\ found # NoRun)
         /\ thrown # "lookup"

\* The direct lookup of a canonical identifier failed: the error left
\* ensureRun and no search was made.
C10_Witness ==
  /\ entry = "ensureRun" /\ idInput = FullIdA
  /\ rpc = "threw" /\ thrown = "lookup"
  /\ clientCalls = <<"getRun">>

\* A suffix was resolved through the search.
C10_WitnessPartial ==
  /\ entry = "ensureRun" /\ idInput = SubSeq(FullIdA, 15, 26)
  /\ rpc = "returned" /\ resolved.usedPartial /\ resolved.runId = FullIdA

\* The run ids of the events that the search matches against the
\* identifier, in the order of the listing.
RECURSIVE MatchingIds(_, _, _)
MatchingIds(evs, k, suffix) ==
  IF k > Len(evs) THEN <<>>
  ELSE (IF evs[k].run_id # Undefined /\ EndsWith(evs[k].run_id, suffix)
          THEN <<evs[k].run_id>> ELSE <<>>) \o MatchingIds(evs, k + 1, suffix)

SearchEnded == rpc \in {"findReturned", "returned", "threw"} /\ ~LooksLikeFullUlid(idInput)

\* C11: in the partial-ID search the matching candidates are looked up
\* in listing order; a failed lookup moves on to the next candidate, the
\* first successful lookup is the result, and the result is null only
\* when every matching candidate (possibly none) was looked up and failed.
C11_SearchContinuesAfterFailure ==
  SearchEnded =>
    LET m == MatchingIds(candidates, 1, idInput)
        n == Len(lookups)
    IN /\ n <= Len(m) /\ lookups = SubSeq(m, 1, n) /\ Len(answers) = n
       /\ \A k \in 1..(n - 1) : GetRunFails(answers[k])
       /\ IF found # NoRun
            THEN n >= 1 /\ found = answers[n] /\ ~GetRunFails(answers[n])
            ELSE n = Len(m) /\ \A k \in 1..n : GetRunFails(answers[k])

\* The lookup of the first matching candidate failed and the second
\* matching candidate was returned.
C11_Witness ==
  /\ SearchEnded /\ idInput = <<"X">>
  /\ candidates = <<[run_id |-> FullIdA], [run_id |-> FullIdB]>>
  /\ Len(answers) = 2 /\ GetRunFails(answers[1])
  /\ found # NoRun /\ found.run_id = FullIdB

\* C12: a resolution through the search ends in the run-not-found error,
\* never in a resolved run or another failure, when no candidate
\* resolves, when the identifier is empty, and when the event listing
\* fails.
C12_SearchEndsNotFound ==
  (/\ entry = "ensureRun" /\ rpc \in {"returned", "threw"}
   /\ ~validateRunId(idInput)
   /\ \/ idInput = <<>>
      \/ upListing = "failed"
      \/ \A k \in 1..Len(answers) : GetRunFails(answers[k]))
    => (thrown = "notfound" /\ resolved = NoResolved)

RECURSIVE Changes(_, _)
Changes(obs, prev) ==
  IF obs = <<>> THEN 0
  ELSE (IF Head(obs) # prev THEN 1 ELSE 0) + Changes(Tail(obs), Head(obs))

\* C14: a single-run watch has rendered once per change in the sequence
\* of statuses it observed, and no tick polls after a check of the watch
\* observed a terminal status (or ended the watch otherwise).
C14_RenderPerStatusChange ==
  \A k \in 1..MaxWatches :
    watch[k].mode = "run" =>
      /\ watch[k].renders = Changes(watch[k].observed, "")
      /\ ~watch[k].latePoll

\* Running, Running, Completed was observed: two renders, and the watch
\* is stopped with no timer left.
C14_Witness ==
  /\ watch[1].mode = "run"
  /\ watch[1].observed = <<"Running", "Running", "Completed">>
  /\ watch[1].renders = 2
  /\ ~isWatching /\ timers = {}

NonTerminalStatuses == {"Queued", "Running"}

\* C15: a check of an event watch ends the watch as completed exactly
\* when the answer holds at least one run and no Queued or Running run;
\* while a run is Queued or Running, or the event has no runs, the
\* watch goes on (unless the time limit is exceeded).
C15_StopsWhenNoRunNonTerminal ==
  (lastCheck.k # 0 /\ watch[lastCheck.k].mode = "event" /\ ~lastCheck.answer.failed) =>
    LET rs == lastCheck.answer.runs
        w == watch[lastCheck.k]
        allDone == Len(rs) > 0 /\ \A i \in 1..Len(rs) : rs[i] \notin NonTerminalStatuses
    IN /\ lastCheck.result = "terminal" <=> allDone
       /\ (~allDone /\ ~(w.maxDuration # 0 /\ lastCheck.elapsed > w.maxDuration))
            => lastCheck.result = "continue"

\* The latest check met an answer that ends the watch before the time
\* limit is looked at: a failed or invalid answer, a terminal status,
\* or a non-empty list of runs none of which is Running.
EndsBeforeTimeoutCheck ==
  LET a == lastCheck.answer
  IN IF watch[lastCheck.k].mode = "run"
       THEN a.failed \/ a.status \notin {"Running"}
       ELSE \/ a.failed
            \/ \E i \in 1..Len(a.runs) : a.runs[i] = "Queued"
            \/ (Len(a.runs) > 0 /\ \A i \in 1..Len(a.runs) : a.runs[i] # "Running")

\* C16: a check that does not end the watch for another reason ends it
\* with the timeout outcome exactly when maxDuration is set and the
\* elapsed time exceeds it, whether or not the status changed; after a
\* timeout the watcher is stopped and no timer is scheduled.
C16_TimeoutEveryTick ==
  lastCheck.k # 0 =>
    LET w == watch[lastCheck.k]
    IN /\ EndsBeforeTimeoutCheck => lastCheck.result # "timeout"
       /\ ~EndsBeforeTimeoutCheck =>
            (lastCheck.result = "timeout"
               <=> (w.maxDuration # 0 /\ lastCheck.elapsed > w.maxDuration))
       /\ ~EndsBeforeTimeoutCheck =>
            (lastCheck.result = "continue"
               <=> ~(w.maxDuration # 0 /\ lastCheck.elapsed > w.maxDuration))
       /\ lastCheck.result = "timeout" => (~isWatching /\ intervalId = 0 /\ timers = {})

\* A tick whose observed status did not change ended the watch by
\* timeout.
C16_Witness ==
  /\ lastCheck.k = 1 /\ lastCheck.result = "timeout"
  /\ watch[1].mode = "run"
  /\ watch[1].observed = <<"Running", "Running">> /\ watch[1].renders = 1
  /\ watch[1].polls = 2
  /\ ~isWatching /\ timers = {}

\* C17: an interval timer of the instance is scheduled only while the
\* instance is watching: once the watch has ended no timer remains.
C17_TimerOnlyWhileWatching ==
  timers # {} => isWatching

\* C18: when the interrupt signal ended the process, the watcher's
\* timer had been stopped and the exit status is 0.
C18_SigintStopsTimer ==
  cmd = "interrupted" => (proc = "exit0" /\ timers = {} /\ intervalId = 0)

\* C19: a watch command during which an error was reported through
\* displayError ends with a non-zero exit status.
C19_ErrorsExitNonZero ==
  (proc # "running" /\ shown > 0 /\ cmd # "interrupted") => proc = "exit1"

\* C20: a record with a non-empty run_id and a well-formed
\* run_started_at is accepted exactly when its status is one of Queued,
\* Running, Completed, Failed, Cancelled.
C20_FiveStatusesAccepted ==
  (/\ verdict # "none"
   /\ record.run_id = "A"
   /\ record.run_started_at \in {DatetimeMillis, DatetimeSeconds}
   /\ record.ended_at \in {Undefined, DatetimeMillis})
    => (verdict = "accepted"
          <=> record.status \in {"Queued", "Running", "Completed", "Failed", "Cancelled"})
\* C21: the cancel command invokes cancelRun or bulkCancel, and sends
\* their HTTP request, only when --yes is given and --dry-run is not;
\* with --dry-run or without --yes the command ends without either,
\* and it makes at most one such call.
C21_CancelsOnlyWhenConfirmed ==
  /\ requests # <<>> => (cancelOptions.yes /\ ~cancelOptions.dryRun)
  /\ http # <<>> => (cancelOptions.yes /\ ~cancelOptions.dryRun)
  /\ Len(requests) <= 1 /\ Len(http) <= Len(requests)
  /\ (cancelPc = "done" /\ (cancelOptions.dryRun \/ ~cancelOptions.yes)) =>
       cancelOutcome \in {"dryRun", "needsYes", "error"}

\* A well-formed single-run cancellation given both --dry-run and --yes
\* ended as a dry run.
C21_Witness ==
  /\ cancelPc = "done" /\ cancelOutcome = "dryRun"
  /\ cancelOptions.run = FullIdA
  /\ cancelOptions.dryRun /\ cancelOptions.yes
  /\ requests = <<>> /\ http = <<>>

\* Past the fetch phase of a listRuns call of the real client.
FetchPhaseOver == client = "real" /\ pc \in {"materialize", "response", "done"}

\* C22: whenever the initial events page of a listRuns call exposed a
\* continuation cursor, cursor pages are requested, with or without a
\* status filter.
C22_CursorPagesAlwaysFetched ==
  (FetchPhaseOver /\ Truthy(initialCursor)) => pageRequests >= 1

\* C23: the initial events query carries both bounds when after and
\* before are given; the hours lookback is sent only when neither is
\* given, and the default status lookback only when none of after,
\* before and hours is given.
C23_BothBoundsSent ==
  wpc # "start" =>
    LET o == timeOptions
    IN /\ (Given(o.after) /\ Given(o.before)) =>
            (eventsParams.received_after = o.after /\ eventsParams.received_before = o.before)
       /\ (~Given(o.after) /\ ~Given(o.before) /\ o.hours # 0) =>
            eventsParams = [received_after |-> o.hours, received_before |-> NoTime]
       /\ (Given(o.after) \/ Given(o.before)) =>
            /\ eventsParams.received_after \in {o.after, NoTime}
            /\ eventsParams.received_before \in {o.before, NoTime}
       /\ (~Given(o.after) /\ ~Given(o.before) /\ o.hours = 0) =>
            eventsParams.received_after =
              (IF Truthy(o.status) THEN StatusLookbackHours ELSE NoTime)

\* The window the claim derives for a call: its start is the explicit
\* after, now minus hours, or the default status lookback; its end is
\* the explicit before, or now.
WindowStart(o) ==
  IF Given(o.after) THEN o.after
  ELSE IF o.hours # 0 THEN o.hours
  ELSE StatusLookbackHours
WindowEnd(o) == IF Given(o.before) THEN o.before ELSE 0

\* C24: every chunk query asks for a sub-window of the window of its
\* call (not earlier than its start, not later than its end), and two
\* chunk queries cover disjoint ranges.
C24_ChunksInsideWindow ==
  /\ \A k \in 1..Len(chunkParams) :
       /\ chunkParams[k].received_after <= WindowStart(timeOptions)
       /\ chunkParams[k].received_before >= WindowEnd(timeOptions)
       /\ chunkParams[k].received_before <= chunkParams[k].received_after
  /\ \A j, k \in 1..Len(chunkParams) :
       j < k => chunkParams[k].received_before >= chunkParams[j].received_after

\* C25: the merge of fetchTimeBasedChunks starts only when every chunk
\* request has settled, and the merged list is the events of the chunks
\* that answered, in ascending chunk index, up to maxResults: it is a
\* function of the chunk responses alone, not of their completion
\* order.
C25_MergeAfterAllInIndexOrder ==
  /\ events # <<>> => pc = "merged"
  /\ pc = "merged" =>
       /\ \A i \in 1..Len(results) : results[i] # ChunkPending
       /\ \A i \in 1..Len(results) : results[i].chunkIndex = i + 1
       /\ events = Slice(FlattenOk(results, 1), EffectiveMaxResults)

\* Two chunks answered with different events, the one of higher index
\* first, and both are merged with the lower index first.
C25_Witness ==
  /\ pc = "merged" /\ outOfOrder
  /\ Len(results) = 2
  /\ Len(results[1].events) = 1 /\ Len(results[2].events) = 1
  /\ results[1].events # results[2].events
  /\ events = results[1].events \o results[2].events

\* The page loop goes round only after a non-empty page that carried a
\* cursor different from the one just used.
PageLoopContinues ==
  (pc = "pages" /\ pc' = "pages") =>
    /\ pageRequests' = pageRequests + 1 /\ pagesLoaded' = pagesLoaded + 1
    /\ Len(additionalEvents') > Len(additionalEvents)
    /\ Truthy(currentCursor') /\ currentCursor' # currentCursor
    /\ ~upPageFailed'

\* C26: fetchAdditionalPages ends for every upstream behaviour; it
\* sends at most 20 page requests, one per loop iteration, none after a
\* failed request or an empty page, and goes on to the next request
\* only after a non-empty page with a new cursor.
C26_PageLoopTerminates ==
  /\ [](/\ pageRequests <= maxAdditionalPages
        /\ pagesLoaded <= pageRequests /\ pageRequests <= pagesLoaded + 1
        /\ pc = "pages" => (pageRequests = pagesLoaded /\ ~upPageFailed)
        /\ upPageFailed => pageRequests = pagesLoaded + 1
        /\ ~Truthy(initialCursor) => pageRequests = 0)
  /\ [][PageLoopContinues]_vars
  /\ <>(pc # "pages")

\* Twenty pages were loaded, each with a new cursor, and the loop
\* stopped at the bound with a cursor still in hand.
C26_Witness ==
  /\ upKind = "uniform" /\ pc = "materialize"
  /\ pageRequests = maxAdditionalPages /\ pagesLoaded = maxAdditionalPages
  /\ Len(events) = maxAdditionalPages
  /\ Truthy(currentCursor) /\ ~upPageFailed

\* options.limit || 20
RequestedLimit == IF listOptions.limit = 0 THEN DefaultLimit ELSE listOptions.limit

\* C27 as stated: the events contributed by the chunk fan-out never
\* number more than five times the requested limit, itself capped by the
\* fixed maximum of fetchTimeBasedChunks.
C27_CeilingCapped ==
  pc = "merged" => Len(events) <= Min(RequestedLimit * 5, DefaultMaxResults)

\* C27 as amended: the events contributed by the chunk fan-out never
\* number more than the ceiling, five times the requested limit and at
\* least 200; the merged list is the events of the answered chunks, in
\* chunk order, cut at the ceiling.
C27_CeilingFloored ==
  pc = "merged" =>
    LET ceiling == IF RequestedLimit * 5 >= MinMaxResults THEN RequestedLimit * 5
                   ELSE MinMaxResults
        delivered == ChunkEventCount(results, 1)
    IN /\ Len(events) <= ceiling
       /\ Len(events) = (IF delivered <= ceiling THEN delivered ELSE ceiling)

\* Three full chunk pages were delivered for a limit of 50: the merge
\* stopped at the ceiling of 250 events.
C27_Witness ==
  /\ pc = "merged" /\ upKind = "uniform" /\ listOptions.limit = 50
  /\ ChunkEventCount(results, 1) = 300
  /\ Len(events) = 250

\* The run ids referenced by evs, each at its first occurrence.
RECURSIVE FirstOccurrences(_, _, _)
FirstOccurrences(evs, k, seen) ==
  IF k > Len(evs) THEN <<>>
  ELSE IF HasRunId(evs[k]) /\ evs[k].run_id \notin seen
    THEN <<evs[k].run_id>> \o FirstOccurrences(evs, k + 1, seen \cup {evs[k].run_id})
    ELSE FirstOccurrences(evs, k + 1, seen)

\* The run of id r is returned: its lookup succeeded and it passes the
\* filters of the call.
Kept(r) ==
  IF upLookup[r] = NotAsked \/ GetRunFails(upLookup[r]) THEN FALSE
  ELSE PassesFilters(listOptions, EnrichedRun(upLookup[r], events))

RECURSIVE KeptIds(_, _)
KeptIds(ids, k) ==
  IF k > Len(ids) THEN <<>>
  ELSE (IF Kept(ids[k]) THEN <<ids[k]>> ELSE <<>>) \o KeptIds(ids, k + 1)

C29_OneLookupPerRun ==
  /\ \A i, j \in 1..Len(getRunCalls) : i # j => getRunCalls[i] # getRunCalls[j]
  /\ {getRunCalls[k] : k \in 1..Len(getRunCalls)} = seenRunIds
  /\ \A r \in RunIds : (upLookup[r] # NotAsked) <=> (r \in seenRunIds)

\* The lookup of run A failed and a second event referencing A was
\* passed over without another lookup.
C29_Witness ==
  /\ client = "real" /\ pc = "materialize" /\ idx > Len(events)
  /\ Len(events) = 2 /\ events[1].run_id = "A" /\ events[2].run_id = "A"
  /\ upLookup["A"] = LookupFailure
  /\ getRunCalls = <<"A">>

\* C30: a check that settles on a watch that has already ended (by a
\* terminal status, the timeout or an error) does nothing: it does not
\* render, report or stop again, so the ending and its notice are
\* produced once also when ticks overlap.
C30_EndingProducedOnce ==
  [][(lastCheck'.seq # lastCheck.seq /\ watch[lastCheck'.k].ended) =>
       /\ lastCheck'.result = "continue"
       /\ watch'[lastCheck'.k].renders = watch[lastCheck'.k].renders
       /\ shown' = shown]_vars

====
